---- MODULE Spec2Model ----
(***************************************************************************)
(* Git Control Center: the shallow query cache of GitService, the refresh  *)
(* orchestration (RefreshOrchestrator, refreshAll, change notifications)   *)
(* and the Sync and Smart Checkout workflows of registerCommands.          *)
(*                                                                         *)
(* Each part has its own specification over the shared variable list; a    *)
(* specification pins the variables of the other parts to their initial    *)
(* values.                                                                 *)
(***************************************************************************)
EXTENDS Integers, Sequences, FiniteSets, TLC

VARIABLES
  \* ---- GitService shallow cache (gitService.ts) ----
  gitCache,      \* GitService.cache: key -> Absent | [at, value]
  now,           \* Date.now(), in ms
  refs,          \* per repository root: the mutating commands whose effect is in the repository
  writes,        \* in-flight / finished mutating runGit calls
  reads,         \* in-flight / finished getBranches / getMiniLog calls
  \* ---- refresh orchestration (errorReporter.ts, part_000, providers) ----
  passes,        \* RefreshOrchestrator.refreshNow invocations
  cmdRefresh,    \* refreshAll invocations made by commands
  notifViews,    \* view refreshes started by onDidChangeRepositories listeners
  debounceTimer, \* Debouncer.timer is armed
  started,       \* RefreshOrchestrator.start() has run
  \* ---- workflows (part_000) ----
  settings,      \* the workspace configuration read by ConfigService.get()
  git,           \* the repository as the git binary sees it
  wf,            \* the running command handler: its position and locals
  calls,         \* git invocations made so far, in order
  prompts,       \* prompts shown to the operator so far, in order
  messages,      \* messages shown to the operator so far, in order
  recents,       \* BranchMemoryService recents of the repository
  \* ---- RepositoryManager (errorReporter.ts, stateStore.ts) ----
  regNow,        \* Date.now() as the registry sees it
  regCache,      \* RepositoryManager.cache: StateStore<RepositoryInfo>
  repoVersion,   \* per root, the number of mutating commands that have completed
  repositories,  \* RepositoryManager.repositories, the published collection
  regRun,        \* the refreshRepositories call in progress
  activeRepositoryId, \* RepositoryManager.activeRepositoryId
  regLastOp,     \* the last registry operation that returned: its inputs and outcome
  \* ---- setActiveRepositoryForUri as a function (errorReporter.ts) ----
  sel,           \* a collection, an active id, and the last call with its outcome
  \* ---- Debouncer and the triggers of RefreshOrchestrator (part_002, errorReporter.ts) ----
  dbNow,         \* the clock of the timers, in ms
  dbDue,         \* the time at which the armed Debouncer timer fires, -1 when not armed
  dbLast,        \* the last trigger: its source and time
  dbStarts,      \* the passes started so far by a trigger: source, time, last trigger
  \* ---- StateStore (stateStore.ts) ----
  store,         \* StateStore.cache: key -> NoEntry | [value, timestamp]
  storeNow,      \* Date.now() as the store sees it
  storeOp,       \* the last StateStore call: its arguments, the store before, its result
  \* ---- ErrorReporter.suggestAction (errorReporter.ts) ----
  failure,       \* a failure (message, stderr) and its classification
  \* ---- the parsers of git output (part_001) ----
  parse,         \* a parser call: the function, its arguments and its result
  \* ---- commands of the operator next to a running handler (part_000) ----
  others,        \* the number of other commands run while a handler waits for an answer
  \* ---- overlapping refreshRepositories calls (errorReporter.ts) ----
  ov,            \* one repository, the registry and the refreshRepositories calls in progress
  \* ---- command handlers and the active repository (part_000) ----
  inv,           \* the active repository, the handlers on the call stack, what they did
  \* ---- BranchMemoryService (branchMemoryService.ts) ----
  mem            \* workspaceState per key, and the recordCheckout calls made so far

cacheVars == <<gitCache, now, refs, writes, reads>>
refreshVars == <<passes, cmdRefresh, notifViews, debounceTimer, started>>
wfVars == <<settings, git, wf, calls, prompts, messages, recents>>
registryVars == <<regNow, regCache, repoVersion, repositories, regRun, activeRepositoryId, regLastOp>>
selVars == <<sel>>
debounceVars == <<dbNow, dbDue, dbLast, dbStarts>>
storeVars == <<store, storeNow, storeOp>>
errVars == <<failure>>
parseVars == <<parse>>
otherVars == <<others>>
overlapVars == <<ov>>
invokeVars == <<inv>>
memoryVars == <<mem>>
lateVars == <<parseVars, otherVars, overlapVars, invokeVars, memoryVars>>
partVars == <<selVars, debounceVars, storeVars, errVars, lateVars>>
vars == <<cacheVars, refreshVars, wfVars, registryVars, partVars>>

(***************************************************************************)
(* Bounds                                                                  *)
(***************************************************************************)
MaxReads == 2
MaxWrites == 2
MaxTicks == 2
TickMs == 2500
MaxPasses == 2
MaxCmdRefresh == 1
MaxCount == 2
MaxFiles == 1
MaxDepth == 1
MaxRegTicks == 2
RegTickMs == 1500
MaxCommands == 1
DebounceStepMs == 200
MaxDebounceSteps == 5
MaxBurst == 2
MaxStderrLen == 2
MaxLines == 2
MaxBlocks == 2
MaxRows == 2
MaxRefreshes == 2
MaxRecords == 3

(***************************************************************************)
(* Text helpers: a text is a sequence of tokens (characters or words).      *)
(***************************************************************************)
Includes(text, part) ==
  \E i \in 1..(Len(text) - Len(part) + 1) : SubSeq(text, i, i + Len(part) - 1) = part

(***************************************************************************)
(* GitService: the shallow cache of getBranches / getMiniLog               *)
(***************************************************************************)
RootA == <<"/", "a">>
RootAB == <<"/", "a", "b">>
Roots == {RootA, RootAB}

BranchesTtlMs == 3000
MiniLogTtlMs == 4000

Absent == [at |-> -1, value |-> {}]

\* vscode.Uri.file(p).toString()
UriString(root) == <<"file://">> \o root

CurrentBranch == <<"main">>

BranchesKey(root, currentBranch) ==
  <<"branches:">> \o UriString(root) \o <<":">> \o currentBranch

MiniLogKey(root, ref, limit) ==
  <<"minilog:">> \o UriString(root) \o <<":">> \o ref \o <<":">> \o limit

ReadKinds == {"branches", "minilog"}

KeyOf(kind, root) ==
  IF kind = "branches" THEN BranchesKey(root, CurrentBranch)
  ELSE MiniLogKey(root, <<"HEAD">>, <<"20">>)

TtlOf(kind) == IF kind = "branches" THEN BranchesTtlMs ELSE MiniLogTtlMs

\* args[0] of the query each read runs
QueryCommand(kind) == IF kind = "branches" THEN "for-each-ref" ELSE "log"

CacheKeys == {KeyOf(kind, root) : kind \in ReadKinds, root \in Roots}

writeCommands ==
  {"checkout", "commit", "merge", "rebase", "pull", "push", "branch", "stash",
   "restore", "add", "clean", "fetch", "worktree"}

\* GitService.invalidateShallowCache(cwd, args), args[0] = command
invalidateShallowCache(cache, cwd, command) ==
  IF command \notin writeCommands THEN cache
  ELSE [key \in DOMAIN cache |-> IF Includes(key, cwd) THEN Absent ELSE cache[key]]

\* GitService.getCached(key, ttlMs): the cache afterwards and whether a value is returned
getCached(cache, key, ttlMs, t) ==
  IF cache[key] = Absent THEN [cache |-> cache, hit |-> FALSE]
  ELSE IF t - cache[key].at > ttlMs THEN [cache |-> [cache EXCEPT ![key] = Absent], hit |-> FALSE]
  ELSE [cache |-> cache, hit |-> TRUE]

ReadIds == 1..MaxReads
WriteIds == 1..MaxWrites

IdleRead == [pc |-> "idle", kind |-> "branches", root |-> RootA, value |-> {}, doneAtStart |-> {}]
IdleWrite == [pc |-> "idle", root |-> RootA]

\* the mutating commands on root that have completed
DoneWrites(root) == {w \in WriteIds : writes[w].pc = "done" /\ writes[w].root = root}

InitCache ==
  /\ gitCache = [key \in CacheKeys |-> Absent]
  /\ now = 0
  /\ refs = [root \in Roots |-> {}]
  /\ writes = [w \in WriteIds |-> IdleWrite]
  /\ reads = [i \in ReadIds |-> IdleRead]

\* getBranches / getMiniLog up to the first await: cache lookup, then runGit starts the query
ReadStart(i, kind, root) ==
  /\ reads[i].pc = "idle"
  /\ \A j \in ReadIds : j < i => reads[j].pc # "idle"
  /\ LET key == KeyOf(kind, root)
         g == getCached(gitCache, key, TtlOf(kind), now)
     IN IF g.hit
        THEN /\ reads' = [reads EXCEPT ![i] = [pc |-> "done", kind |-> kind, root |-> root,
                                               value |-> gitCache[key].value,
                                               doneAtStart |-> DoneWrites(root)]]
             /\ gitCache' = g.cache
        ELSE /\ reads' = [reads EXCEPT ![i] = [pc |-> "query", kind |-> kind, root |-> root,
                                               value |-> {},
                                               doneAtStart |-> DoneWrites(root)]]
             /\ gitCache' = invalidateShallowCache(g.cache, root, QueryCommand(kind))
  /\ UNCHANGED <<now, refs, writes>>

\* the query subprocess reads the repository
QuerySample(i) ==
  /\ reads[i].pc = "query"
  /\ reads' = [reads EXCEPT ![i].pc = "sampled", ![i].value = refs[reads[i].root]]
  /\ UNCHANGED <<gitCache, now, refs, writes>>

\* the query exits 0: the parsed value is cached and returned
ReadFinish(i) ==
  /\ reads[i].pc = "sampled"
  /\ gitCache' = [gitCache EXCEPT ![KeyOf(reads[i].kind, reads[i].root)] =
                     [at |-> now, value |-> reads[i].value]]
  /\ reads' = [reads EXCEPT ![i].pc = "done"]
  /\ UNCHANGED <<now, refs, writes>>

\* the query fails: runGitRaw throws, nothing is cached
ReadFail(i) ==
  /\ reads[i].pc \in {"query", "sampled"}
  /\ reads' = [reads EXCEPT ![i].pc = "failed"]
  /\ UNCHANGED <<gitCache, now, refs, writes>>

\* runGit of a mutating command: invalidation, then the subprocess starts
WriteStart(w, root, command) ==
  /\ writes[w].pc = "idle"
  /\ \A v \in WriteIds : v < w => writes[v].pc # "idle"
  /\ gitCache' = invalidateShallowCache(gitCache, root, command)
  /\ writes' = [writes EXCEPT ![w] = [pc |-> "running", root |-> root]]
  /\ UNCHANGED <<now, refs, reads>>

\* the subprocess changes the repository
WriteEffect(w) ==
  /\ writes[w].pc = "running"
  /\ refs' = [refs EXCEPT ![writes[w].root] = @ \cup {w}]
  /\ writes' = [writes EXCEPT ![w].pc = "applied"]
  /\ UNCHANGED <<gitCache, now, reads>>

\* the subprocess exits 0 and runGit returns
WriteFinish(w) ==
  /\ writes[w].pc = "applied"
  /\ writes' = [writes EXCEPT ![w].pc = "done"]
  /\ UNCHANGED <<gitCache, now, refs, reads>>

\* the subprocess exits non-zero without having changed the repository
WriteFail(w) ==
  /\ writes[w].pc = "running"
  /\ writes' = [writes EXCEPT ![w].pc = "failed"]
  /\ UNCHANGED <<gitCache, now, refs, reads>>

Tick ==
  /\ now < MaxTicks * TickMs
  /\ now' = now + TickMs
  /\ UNCHANGED <<gitCache, refs, writes, reads>>

(***************************************************************************)
(* Refresh orchestration.                                                  *)
(*                                                                         *)
(* A refresh pass is one call of RefreshOrchestrator.refreshNow; a command *)
(* refresh is one call of refreshAll.  Both await the registry refresh     *)
(* (RepositoryManager.refreshRepositories) and then the view refreshes of  *)
(* Promise.all.  The views phase of a pass lasts from the start of its     *)
(* view refreshes to the completion of the last of them.  A notification   *)
(* batch is the set of view refreshes that the onDidChangeRepositories     *)
(* listeners of the providers start on one firing of the event.            *)
(***************************************************************************)
PassIds == 1..MaxPasses
CmdIds == 1..MaxCmdRefresh

IdlePass == [pc |-> "idle", trigger |-> "none", force |-> FALSE]
IdleCmd == [pc |-> "idle", force |-> FALSE]

InitRefresh ==
  /\ passes = [p \in PassIds |-> IdlePass]
  /\ cmdRefresh = [c \in CmdIds |-> IdleCmd]
  /\ notifViews = 0
  /\ debounceTimer = FALSE
  /\ started = FALSE

\* the first unused invocation record
FreePass(p) == passes[p].pc = "idle" /\ \A q \in PassIds : q < p => passes[q].pc # "idle"
FreeCmd(c) == cmdRefresh[c].pc = "idle" /\ \A d \in CmdIds : d < c => cmdRefresh[d].pc # "idle"

\* RefreshOrchestrator.refreshNow(force) up to its first await
refreshNow(p, trigger, force) ==
  /\ FreePass(p)
  /\ passes' = [passes EXCEPT ![p] = [pc |-> "registry", trigger |-> trigger, force |-> force]]

\* RefreshOrchestrator.start(): arms the interval and runs refreshNow(true)
OrchestratorStart(p) ==
  /\ ~started
  /\ started' = TRUE
  /\ refreshNow(p, "start", TRUE)
  /\ UNCHANGED <<cmdRefresh, notifViews, debounceTimer>>

\* the setInterval callback of scheduleInterval
IntervalTick(p) ==
  /\ started
  /\ refreshNow(p, "interval", FALSE)
  /\ UNCHANGED <<cmdRefresh, notifViews, debounceTimer, started>>

\* RefreshOrchestrator.triggerDebounced -> Debouncer.trigger: (re)arms the timer
TriggerDebounced ==
  /\ started
  /\ debounceTimer' = TRUE
  /\ UNCHANGED <<passes, cmdRefresh, notifViews, started>>

\* the Debouncer timeout fires: timer cleared, refreshNow() runs
DebounceFlush(p) ==
  /\ debounceTimer
  /\ debounceTimer' = FALSE
  /\ refreshNow(p, "debounce", FALSE)
  /\ UNCHANGED <<cmdRefresh, notifViews, started>>

\* refreshRepositories of a pass completes: collection replaced, change event fired
\* (the listeners start a notification batch), then the pass starts its view refreshes
PassRegistryDone(p) ==
  /\ passes[p].pc = "registry"
  /\ passes' = [passes EXCEPT ![p].pc = "views"]
  /\ notifViews' = notifViews + 1
  /\ UNCHANGED <<cmdRefresh, debounceTimer, started>>

\* refreshRepositories of a pass throws: refreshNow rejects
PassRegistryFail(p) ==
  /\ passes[p].pc = "registry"
  /\ passes' = [passes EXCEPT ![p] = [pc |-> "failed", trigger |-> "none", force |-> FALSE]]
  /\ UNCHANGED <<cmdRefresh, notifViews, debounceTimer, started>>

\* Promise.all of the view refreshes settles; repositoriesProvider.refresh() on success
PassViewsDone(p, ok) ==
  /\ passes[p].pc = "views"
  /\ passes' = [passes EXCEPT ![p] = [pc |-> IF ok THEN "done" ELSE "failed",
                                      trigger |-> "none", force |-> FALSE]]
  /\ UNCHANGED <<cmdRefresh, notifViews, debounceTimer, started>>

\* refreshAll(deps, providers, force) up to its first await
refreshAll(c, force) ==
  /\ FreeCmd(c)
  /\ cmdRefresh' = [cmdRefresh EXCEPT ![c] = [pc |-> "registry", force |-> force]]

\* withRepo after the command body, or gitcc.refresh
CommandRefresh(c, force) ==
  /\ refreshAll(c, force)
  /\ UNCHANGED <<passes, notifViews, debounceTimer, started>>

\* gitcc.switchRepository: setActiveRepository fires the change event, then refreshAll
SwitchRepository(c) ==
  /\ notifViews' = notifViews + 1
  /\ refreshAll(c, FALSE)
  /\ UNCHANGED <<passes, debounceTimer, started>>

CmdRegistryDone(c) ==
  /\ cmdRefresh[c].pc = "registry"
  /\ cmdRefresh' = [cmdRefresh EXCEPT ![c].pc = "views"]
  /\ notifViews' = notifViews + 1
  /\ UNCHANGED <<passes, debounceTimer, started>>

CmdRegistryFail(c) ==
  /\ cmdRefresh[c].pc = "registry"
  /\ cmdRefresh' = [cmdRefresh EXCEPT ![c] = [pc |-> "failed", force |-> FALSE]]
  /\ UNCHANGED <<passes, notifViews, debounceTimer, started>>

\* Promise.all settles; on success repositoriesProvider.refresh() and the status read start
CmdViewsDone(c, ok) ==
  /\ cmdRefresh[c].pc = "views"
  /\ cmdRefresh' = [cmdRefresh EXCEPT ![c] = IF ok THEN [@ EXCEPT !.pc = "status"]
                                            ELSE [pc |-> "failed", force |-> FALSE]]
  /\ UNCHANGED <<passes, notifViews, debounceTimer, started>>

\* getStatus of the active repository settles; commitViewProvider.updateStatus on success
CmdStatusDone(c, ok) ==
  /\ cmdRefresh[c].pc = "status"
  /\ cmdRefresh' = [cmdRefresh EXCEPT ![c] = [pc |-> IF ok THEN "done" ELSE "failed",
                                              force |-> FALSE]]
  /\ UNCHANGED <<passes, notifViews, debounceTimer, started>>

\* the last view refresh of a notification batch settles
NotifViewsDone ==
  /\ notifViews > 0
  /\ notifViews' = notifViews - 1
  /\ UNCHANGED <<passes, cmdRefresh, debounceTimer, started>>

PassInFlight(p) == passes[p].pc \in {"registry", "views"}

RegistryInFlight ==
  \/ \E p \in PassIds : passes[p].pc = "registry"
  \/ \E c \in CmdIds : cmdRefresh[c].pc = "registry"

ViewInFlight ==
  \/ \E p \in PassIds : passes[p].pc = "views"
  \/ \E c \in CmdIds : cmdRefresh[c].pc = "views"
  \/ notifViews > 0

(***************************************************************************)
(* RepositoryManager: the registry of repositories and its StateStore      *)
(*                                                                         *)
(* A RepositoryInfo is given by the version of the repository it was       *)
(* computed from: the number of mutating commands that had completed on    *)
(* that root when `status` was read.  Calls of refreshRepositories are     *)
(* taken one at a time.                                                    *)
(***************************************************************************)
RegistryTtlMs == 3000

\* StateStore: no entry under the key
NoEntry == [value |-> -1, timestamp |-> -1]

\* StateStore.get(key): -1 stands for undefined
storeGet(cache, key) == cache[key].value

\* StateStore.set(key, value) at time t
storeSet(cache, key, value, t) == [cache EXCEPT ![key] = [value |-> value, timestamp |-> t]]

\* mutant: an entry exactly maxAgeMs old is stale
isFresh_Strict(cache, key, maxAgeMs, t) ==
  /\ cache[key] # NoEntry
  /\ t - cache[key].timestamp < maxAgeMs

\* StateStore.isFresh(key, maxAgeMs) at time t
isFresh(cache, key, maxAgeMs, t) ==
  /\ cache[key] # NoEntry
  /\ t - cache[key].timestamp <= maxAgeMs

\* detectRepositories: the roots found, sorted by path
FoundLists == {<<>>, <<RootA>>, <<RootAB>>, <<RootA, RootAB>>}

\* activeRepositoryId is undefined
NoId == <<>>

\* no registry operation has returned yet
NoOp ==
  [op |-> "none", arg |-> <<>>, before |-> NoId, known |-> <<>>, after |-> NoId,
   fired |-> FALSE, result |-> FALSE]

\* pathSeparator() on a POSIX platform; a path is its sequence of characters
pathSeparator == "/"

\* String.prototype.startsWith
StartsWith(text, prefix) ==
  Len(prefix) <= Len(text) /\ SubSeq(text, 1, Len(prefix)) = prefix

\* one step of the stable sort: root goes after every root that is at least as long
InsertByLength(root, sorted) ==
  LET shorter == {i \in DOMAIN sorted : Len(sorted[i]) < Len(root)}
      k == IF shorter = {} THEN Len(sorted) + 1
           ELSE CHOOSE i \in shorter : \A j \in shorter : i <= j
  IN SubSeq(sorted, 1, k - 1) \o <<root>> \o SubSeq(sorted, k, Len(sorted))

\* .sort((a, b) => b.rootUri.fsPath.length - a.rootUri.fsPath.length)
RECURSIVE sortLongestFirst(_)
sortLongestFirst(roots) ==
  IF roots = <<>> THEN <<>>
  ELSE InsertByLength(roots[Len(roots)], sortLongestFirst(SubSeq(roots, 1, Len(roots) - 1)))

\* the filter of setActiveRepositoryForUri: the roots that cover targetPath
matchingRoots(known, targetPath) ==
  SelectSeq(known, LAMBDA root :
    targetPath = root \/ StartsWith(targetPath, root \o <<pathSeparator>>))

\* setActiveRepositoryForUri(uri) over the collection `known` (roots in collection
\* order): the active id afterwards, whether the event fired, the value returned
setActiveRepositoryForUri(known, active, targetPath) ==
  LET matches == sortLongestFirst(matchingRoots(known, targetPath))
  IN IF matches = <<>> \/ active = UriString(matches[1])
     THEN [active |-> active, fired |-> FALSE, result |-> FALSE]
     ELSE [active |-> UriString(matches[1]), fired |-> TRUE, result |-> TRUE]

\* mutant: the event is not fired
setActiveRepository_Silent(active, repositoryId) ==
  [active |-> repositoryId, fired |-> FALSE, result |-> FALSE]

\* setActiveRepository(repositoryId)
setActiveRepository(active, repositoryId) ==
  [active |-> repositoryId, fired |-> TRUE, result |-> FALSE]

\* mutant: an active id that is no longer present is kept
activeAfterRefresh_KeepsStale(active, next) ==
  IF active = NoId /\ Len(next) > 0 THEN UriString(next[1]) ELSE active

\* the end of refreshRepositories: the active id once `next` is the collection
activeAfterRefresh(active, next) ==
  IF active = NoId /\ Len(next) > 0 THEN UriString(next[1])
  ELSE IF active # NoId /\ ~(\E i \in DOMAIN next : UriString(next[i]) = active)
       THEN (IF Len(next) > 0 THEN UriString(next[1]) ELSE NoId)
       ELSE active

\* the collection in its order: detectRepositories sorts the roots by path
SortedRoots == <<RootA, RootAB>>
Listed(collection) == SelectSeq(SortedRoots, LAMBDA root : collection[root] # -1)

\* the files an editor can show
EditorPaths ==
  {RootA, RootA \o <<pathSeparator, "f">>, RootAB \o <<pathSeparator, "f">>, <<"/", "x">>}

NotListed == [root \in Roots |-> -1]

IdleRegRun ==
  [pc |-> "idle", force |-> FALSE, afterCommand |-> FALSE, todo |-> <<>>,
   next |-> NotListed, sampled |-> -1, seen |-> NotListed, log |-> <<>>]

InitRegistry ==
  /\ regNow = 0
  /\ regCache = [root \in Roots |-> NoEntry]
  /\ repoVersion = [root \in Roots |-> 0]
  /\ repositories = NotListed
  /\ regRun = IdleRegRun
  /\ activeRepositoryId = NoId
  /\ regLastOp = NoOp

\* refreshRepositories(force) up to `await detectRepositories()`
refreshRepositories(force, afterCommand, version) ==
  /\ regRun.pc = "idle"
  /\ regRun' = [IdleRegRun EXCEPT !.pc = "detect", !.force = force,
                                  !.afterCommand = afterCommand, !.seen = version]

\* a refresh pass or gitcc.refresh calls refreshRepositories
RegRefreshStart(force) ==
  /\ refreshRepositories(force, FALSE, repoVersion)
  /\ UNCHANGED <<regNow, regCache, repoVersion, repositories, activeRepositoryId, regLastOp>>

\* withRepo: the mutating command of fn(repo) on root has completed and
\* refreshAll(deps, providers) calls refreshRepositories(false)
CommandThenRefresh(root) ==
  /\ repoVersion[root] < MaxCommands
  /\ repoVersion' = [repoVersion EXCEPT ![root] = @ + 1]
  /\ refreshRepositories(FALSE, TRUE, [repoVersion EXCEPT ![root] = @ + 1])
  /\ UNCHANGED <<regNow, regCache, repositories, activeRepositoryId, regLastOp>>

\* detectRepositories resolves
RegDetected(found) ==
  /\ regRun.pc = "detect"
  /\ regRun' = [regRun EXCEPT !.pc = "loop", !.todo = found]
  /\ UNCHANGED <<regNow, regCache, repoVersion, repositories, activeRepositoryId, regLastOp>>

\* one iteration of the loop up to `continue` or `await getRepositoryInfo`
RegLoop ==
  /\ regRun.pc = "loop"
  /\ regRun.todo # <<>>
  /\ LET run == regRun
         key == Head(run.todo)
         reuse == ~run.force /\ isFresh(regCache, key, RegistryTtlMs, regNow)
                             /\ storeGet(regCache, key) # -1
         entry == [root |-> key, existed |-> regCache[key] # NoEntry,
                   age |-> regNow - regCache[key].timestamp,
                   cached |-> storeGet(regCache, key),
                   reused |-> reuse, at |-> regNow, stored |-> FALSE]
     IN regRun' =
          IF reuse
          THEN [run EXCEPT !.todo = Tail(run.todo), !.log = Append(run.log, entry),
                           !.next = [run.next EXCEPT ![key] = storeGet(regCache, key)]]
          ELSE [run EXCEPT !.pc = "info", !.log = Append(run.log, entry)]
  /\ UNCHANGED <<regNow, regCache, repoVersion, repositories, activeRepositoryId, regLastOp>>

\* getRepositoryInfo: `status` reads the repository
RegSample ==
  /\ regRun.pc = "info"
  /\ regRun' = [regRun EXCEPT !.pc = "infoRead",
                              !.sampled = repoVersion[Head(regRun.todo)]]
  /\ UNCHANGED <<regNow, regCache, repoVersion, repositories, activeRepositoryId, regLastOp>>

\* getRepositoryInfo resolves: cache.set(key, info); next.push(info)
RegInfoDone ==
  /\ regRun.pc = "infoRead"
  /\ LET run == regRun
         key == Head(run.todo)
     IN /\ regCache' = storeSet(regCache, key, run.sampled, regNow)
        /\ regRun' =
             [run EXCEPT !.pc = "loop", !.todo = Tail(run.todo),
                         !.next = [run.next EXCEPT ![key] = run.sampled],
                         !.log = [run.log EXCEPT ![Len(run.log)].stored = TRUE]]
  /\ UNCHANGED <<regNow, repoVersion, repositories, activeRepositoryId, regLastOp>>

\* getRepositoryInfo rejects: refreshRepositories rejects
RegInfoFail ==
  /\ regRun.pc \in {"info", "infoRead"}
  /\ regRun' = IdleRegRun
  /\ UNCHANGED <<regNow, regCache, repoVersion, repositories, activeRepositoryId, regLastOp>>

\* after the loop: this.repositories = next; the active id is reconciled; the
\* change event fires
RegPublish ==
  /\ regRun.pc = "loop"
  /\ regRun.todo = <<>>
  /\ repositories' = regRun.next
  /\ activeRepositoryId' = activeAfterRefresh(activeRepositoryId, Listed(regRun.next))
  /\ regLastOp' = [op |-> "refreshRepositories", arg |-> <<>>,
                   before |-> activeRepositoryId, known |-> Listed(regRun.next),
                   after |-> activeRepositoryId', fired |-> TRUE, result |-> FALSE]
  /\ regRun' = [regRun EXCEPT !.pc = "done"]
  /\ UNCHANGED <<regNow, regCache, repoVersion>>

\* gitcc.switchRepository with a repository of the collection: setActiveRepository,
\* then refreshAll (taken when no refreshRepositories call is in progress)
SwitchActiveRepository(root) ==
  /\ repositories[root] # -1
  /\ LET out == setActiveRepository(activeRepositoryId, UriString(root))
     IN /\ activeRepositoryId' = out.active
        /\ regLastOp' = [op |-> "setActiveRepository", arg |-> root,
                         before |-> activeRepositoryId, known |-> Listed(repositories),
                         after |-> out.active, fired |-> out.fired, result |-> out.result]
  /\ IF regRun.pc = "idle"
     THEN refreshRepositories(FALSE, FALSE, repoVersion)
     ELSE UNCHANGED regRun
  /\ UNCHANGED <<regNow, regCache, repoVersion, repositories>>

\* syncActiveRepoFromEditor: setActiveRepositoryForUri; gitcc.refresh when it switched
\* (taken when no refreshRepositories call is in progress)
EditorChanged(targetPath) ==
  /\ LET out == setActiveRepositoryForUri(Listed(repositories), activeRepositoryId, targetPath)
     IN /\ activeRepositoryId' = out.active
        /\ regLastOp' = [op |-> "setActiveRepositoryForUri", arg |-> targetPath,
                         before |-> activeRepositoryId, known |-> Listed(repositories),
                         after |-> out.active, fired |-> out.fired, result |-> out.result]
        /\ IF out.result /\ regRun.pc = "idle"
           THEN refreshRepositories(TRUE, FALSE, repoVersion)
           ELSE UNCHANGED regRun
  /\ UNCHANGED <<regNow, regCache, repoVersion, repositories>>

\* the promise of refreshRepositories has settled and its frame is gone
RegReturn ==
  /\ regRun.pc = "done"
  /\ regRun' = IdleRegRun
  /\ UNCHANGED <<regNow, regCache, repoVersion, repositories, activeRepositoryId, regLastOp>>

RegTick ==
  /\ regNow < MaxRegTicks * RegTickMs
  /\ regNow' = regNow + RegTickMs
  /\ UNCHANGED <<regCache, repoVersion, repositories, regRun, activeRepositoryId, regLastOp>>

(***************************************************************************)
(* setActiveRepositoryForUri over collections of nested and sibling roots  *)
(***************************************************************************)
FsRoot == <<"/">>
RootANested == <<"/", "a", "/", "b">>

\* the roots a collection can hold, in the order of detectRepositories (by path)
SelSorted == <<FsRoot, RootA, RootANested, RootAB>>

\* a file directly inside a directory
FileIn(dir) ==
  IF dir = FsRoot THEN <<pathSeparator, "f">> ELSE dir \o <<pathSeparator, "f">>

SelPaths ==
  {SelSorted[i] : i \in DOMAIN SelSorted}
    \cup {FileIn(SelSorted[i]) : i \in DOMAIN SelSorted}
    \cup {<<"/", "x", "/", "f">>, <<"/", "a", "b", "c">>}

\* the collections: the sub-lists of SelSorted
SelCollections ==
  {SelectSeq(SelSorted, LAMBDA root : root \in chosen) :
     chosen \in SUBSET {SelSorted[i] : i \in DOMAIN SelSorted}}

NoCall == [path |-> <<>>, before |-> NoId, fired |-> FALSE, result |-> FALSE]

IdleSel == [known |-> <<>>, active |-> NoId, call |-> NoCall]

\* a registry as refreshRepositories leaves it: the active id is the id of a member
\* of the collection, undefined when the collection is empty
SelInputs ==
  {[known |-> known, active |-> active, call |-> NoCall] :
     known \in SelCollections,
     active \in {NoId} \cup {UriString(SelSorted[i]) : i \in DOMAIN SelSorted}}

InitSelect ==
  /\ sel \in SelInputs
  /\ IF sel.known = <<>> THEN sel.active = NoId
     ELSE \E i \in DOMAIN sel.known : sel.active = UriString(sel.known[i])

\* setActiveRepositoryForUri(uri) is called
SelectForUri(targetPath) ==
  LET out == setActiveRepositoryForUri(sel.known, sel.active, targetPath)
  IN sel' = [sel EXCEPT !.active = out.active,
                        !.call = [path |-> targetPath, before |-> sel.active,
                                  fired |-> out.fired, result |-> out.result]]

\* the directory names of a path: its characters split at the separators
RECURSIVE SplitPath(_, _, _)
SplitPath(rest, name, names) ==
  LET closed == IF name = <<>> THEN names ELSE Append(names, name)
  IN IF rest = <<>> THEN closed
     ELSE IF rest[1] = pathSeparator THEN SplitPath(Tail(rest), <<>>, closed)
     ELSE SplitPath(Tail(rest), Append(name, rest[1]), names)

Components(path) == SplitPath(path, <<>>, <<>>)

\* dir is the path itself or a directory above it
Covers(dir, path) == StartsWith(Components(path), Components(dir))

(***************************************************************************)
(* Debouncer and the triggers of RefreshOrchestrator.  A timer fires at    *)
(* the time it is due.                                                     *)
(***************************************************************************)
DebounceMs == 400

\* the events that RefreshOrchestrator.start() subscribes triggerDebounced to
DebouncedSources == {"save", "workspaceFolders", "configuration"}
ExternalSignals == {"repositoryOpened", "repositoryClosed"}

NoTrigger == [source |-> "none", at |-> -1, first |-> -1, burst |-> 0]

InitDebounce ==
  /\ dbNow = 0
  /\ dbDue = -1
  /\ dbLast = NoTrigger
  /\ dbStarts = <<>>

\* mutant: a trigger leaves an armed timer as it is
armDebouncer_KeepsFirst(due, t, delayMs) == IF due # -1 THEN due ELSE t + delayMs

\* Debouncer.trigger(fn, delayMs) at time t: clearTimeout, then setTimeout
armDebouncer(due, t, delayMs) == t + delayMs

\* an event of `source` reaches its listener: triggerDebounced()
TimedTrigger(source) ==
  /\ dbLast.burst < MaxBurst \/ dbDue = -1
  /\ TriggerDebounced
  /\ dbDue' = armDebouncer(dbDue, dbNow, DebounceMs)
  /\ dbLast' = IF dbDue = -1
               THEN [source |-> source, at |-> dbNow, first |-> dbNow, burst |-> 1]
               ELSE [dbLast EXCEPT !.source = source, !.at = dbNow, !.burst = @ + 1]
  /\ UNCHANGED <<dbNow, dbStarts>>

\* the timer of the Debouncer fires: refreshNow()
TimedFlush(p) ==
  /\ dbDue = dbNow
  /\ DebounceFlush(p)
  /\ dbDue' = -1
  /\ dbStarts' = Append(dbStarts, [source |-> dbLast.source, at |-> dbNow,
                                   first |-> dbLast.first, last |-> dbLast.at,
                                   burst |-> dbLast.burst])
  /\ UNCHANGED <<dbNow, dbLast>>

\* time passes, up to the time the armed timer is due
DebounceTick ==
  /\ dbNow < MaxDebounceSteps * DebounceStepMs
  /\ dbDue # dbNow
  /\ dbNow' = IF dbDue # -1 /\ dbDue < dbNow + DebounceStepMs THEN dbDue
              ELSE dbNow + DebounceStepMs
  /\ UNCHANGED <<dbDue, dbLast, dbStarts>>
  /\ UNCHANGED refreshVars

(***************************************************************************)
(* StateStore: get, set, invalidate, isFresh.  A key is any string; the    *)
(* empty string is the empty sequence.                                     *)
(***************************************************************************)
EmptyKey == <<>>
StoreKeys == {EmptyKey, UriString(RootA), UriString(RootAB)}

\* the argument of invalidate(key?): omitted, or a key
NoKey == [given |-> FALSE, key |-> EmptyKey]
GivenKey(key) == [given |-> TRUE, key |-> key]

\* `!key`
Falsy(arg) == ~arg.given \/ arg.key = EmptyKey

\* StateStore.invalidate(key?)
storeInvalidate(cache, arg) ==
  IF Falsy(arg) THEN [key \in DOMAIN cache |-> NoEntry]
  ELSE [cache EXCEPT ![arg.key] = NoEntry]

\* mutant: a stale entry is dropped by the probe
isFreshCall_Evicts(cache, key, maxAgeMs, t) ==
  [cache |-> IF cache[key] # NoEntry /\ ~isFresh(cache, key, maxAgeMs, t)
             THEN [cache EXCEPT ![key] = NoEntry] ELSE cache,
   result |-> isFresh(cache, key, maxAgeMs, t)]

\* a call of StateStore.isFresh(key, maxAgeMs) at time t: the store afterwards and
\* the value returned
isFreshCall(cache, key, maxAgeMs, t) ==
  [cache |-> cache, result |-> isFresh(cache, key, maxAgeMs, t)]

MaxAges == {0, RegistryTtlMs}

NoStoreOp ==
  [op |-> "none", arg |-> NoKey, maxAgeMs |-> 0, at |-> -1,
   before |-> [key \in StoreKeys |-> NoEntry], result |-> FALSE,
   repeated |-> FALSE, previous |-> FALSE]

InitStore ==
  /\ store = [key \in StoreKeys |-> NoEntry]
  /\ storeNow = 0
  /\ storeOp = NoStoreOp

\* cache.set(key, value)
StoreSet(key, value) ==
  /\ store' = storeSet(store, key, value, storeNow)
  /\ storeOp' = [NoStoreOp EXCEPT !.op = "set", !.arg = GivenKey(key), !.at = storeNow,
                                  !.before = store]
  /\ UNCHANGED storeNow

\* cache.invalidate(key?)
StoreInvalidate(arg) ==
  /\ store' = storeInvalidate(store, arg)
  /\ storeOp' = [NoStoreOp EXCEPT !.op = "invalidate", !.arg = arg, !.at = storeNow,
                                  !.before = store]
  /\ UNCHANGED storeNow

\* cache.isFresh(key, maxAgeMs)
StoreIsFresh(key, maxAgeMs) ==
  /\ LET out == isFreshCall(store, key, maxAgeMs, storeNow)
     IN /\ store' = out.cache
        /\ storeOp' = [op |-> "isFresh", arg |-> GivenKey(key), maxAgeMs |-> maxAgeMs,
                       at |-> storeNow, before |-> store, result |-> out.result,
                       repeated |-> /\ storeOp.op = "isFresh"
                                    /\ storeOp.arg = GivenKey(key)
                                    /\ storeOp.maxAgeMs = maxAgeMs
                                    /\ storeOp.at = storeNow,
                       previous |-> storeOp.result]
  /\ UNCHANGED storeNow

StoreTick ==
  /\ storeNow < MaxRegTicks * RegTickMs
  /\ storeNow' = storeNow + RegTickMs
  /\ UNCHANGED <<store, storeOp>>

(***************************************************************************)
(* ErrorReporter.suggestAction on texts.  A text is a sequence of words;   *)
(* "\n" is the line break between message and stderr.                      *)
(***************************************************************************)
\* the words of a failure text: the known signatures, some of them in another
\* letter case, and a word that belongs to no signature
ErrorWords ==
  {"not a git repository", "no upstream configured",
   "could not read from remote repository", "authentication failed", "pathspec",
   "nothing to commit", "merge", "conflict", "would be overwritten by checkout",
   "non-fast-forward", "fatal:", "Pathspec", "NON-FAST-FORWARD"}

\* mutant: the text is matched as it is
toLowerCase_Identity(text) == text

\* String.prototype.toLowerCase
toLowerCase(text) ==
  [i \in DOMAIN text |->
     CASE text[i] = "Pathspec" -> "pathspec"
       [] text[i] = "NON-FAST-FORWARD" -> "non-fast-forward"
       [] OTHER -> text[i]]

\* mutant: stderr is left out
sourceOf_MessageOnly(message, stderr) == toLowerCase(message)

\* `${message}\n${stderr ?? ''}`.toLowerCase()
sourceOf(message, stderr) == toLowerCase(message \o <<"\n">> \o stderr)

\* the signatures of suggestAction in the order of its tests, each with its words
SignatureTable ==
  <<"not a git repository", "no upstream configured",
    "could not read from remote repository", "authentication failed", "pathspec",
    "nothing to commit", "merge conflict", "would be overwritten by checkout",
    "non-fast-forward">>

WordsOf(signature) ==
  IF signature = "merge conflict" THEN <<"merge", "conflict">> ELSE <<signature>>

\* source.includes(signature), for every signature
signaturesIn(source) ==
  {SignatureTable[i] : i \in {j \in DOMAIN SignatureTable :
                                Includes(source, WordsOf(SignatureTable[j]))}}

RECURSIVE SeqsUpTo(_, _)
SeqsUpTo(S, n) ==
  IF n = 0 THEN {<<>>}
  ELSE LET shorter == SeqsUpTo(S, n - 1)
       IN shorter \cup {Append(q, x) : q \in shorter, x \in S}

NotClassified == [message |-> <<"unclassified">>, actions |-> <<>>]

IdleFailure == [message |-> <<>>, stderr |-> <<>>, out |-> NotClassified]

\* Error.message: empty, or one word
FailureMessages == {<<>>} \cup {<<word>> : word \in ErrorWords}

\* a failure reaches ErrorReporter.show
InitFailure ==
  failure \in {[message |-> m, stderr |-> e, out |-> NotClassified] :
                 m \in FailureMessages,
                 e \in SeqsUpTo(ErrorWords, MaxStderrLen)}

(***************************************************************************)
(* The parsers of git output (domain/parsers): a line is the sequence of   *)
(* its space-separated fields, a field a word or a sequence of characters  *)
(***************************************************************************)
Undefined == "undefined"

\* parts[i] ?? fallback, for the 0-based index i
FieldOr(parts, i, fallback) == IF i + 1 <= Len(parts) THEN parts[i + 1] ELSE fallback

\* parts.slice(from).join(' ')
SliceFrom(parts, from) == SubSeq(parts, from + 1, Len(parts))

\* line.startsWith('<words> '): the line begins with the words and a space
StartsWithWords(line, words) ==
  /\ Len(line) > Len(words)
  /\ SubSeq(line, 1, Len(words)) = words

\* FileChange
FileChange(path, section, x, y) == [path |-> path, section |-> section, x |-> x, y |-> y]

\* the StatusInfo before the first line
EmptyStatus ==
  [branch |-> "HEAD", detachedHead |-> FALSE, upstream |-> Undefined, ahead |-> 0, behind |-> 0,
   staged |-> <<>>, unstaged |-> <<>>, untracked |-> <<>>, conflicts |-> <<>>]

\* mutant: only a 'U' on either side is a conflict
isConflictPair_OnlyU(x, y) == x = "U" \/ y = "U"

\* part_001 line 55
isConflictPair(x, y) == x = "U" \/ y = "U" \/ (x = "A" /\ y = "A") \/ (x = "D" /\ y = "D")

\* part_001 lines 42-68: a '1' or '2' record
placeChanged(acc, parts) ==
  LET xy == FieldOr(parts, 1, <<".", ".">>)
      x == FieldOr(xy, 0, ".")
      y == FieldOr(xy, 1, ".")
      path == SliceFrom(parts, 8)
  IN IF isConflictPair(x, y)
       THEN [acc EXCEPT !.conflicts = Append(@, FileChange(path, "conflicts", x, y))]
       ELSE [acc EXCEPT
               !.staged = IF x # "." THEN Append(@, FileChange(path, "staged", x, y)) ELSE @,
               !.unstaged = IF y # "." THEN Append(@, FileChange(path, "unstaged", x, y)) ELSE @]

\* Number(digits) of a one-digit text
Number(digit) == CASE digit = "1" -> 1 [] digit = "2" -> 2 [] OTHER -> 0

\* Number(fragment.match(/<sign>(\d+)/)?.[1] ?? '0'): the count that follows the
\* first sign in the fields of the fragment
signedCount(fragment, sign) ==
  LET hits == {i \in DOMAIN fragment : FieldOr(fragment[i], 0, "") = sign /\ Len(fragment[i]) > 1}
  IN IF hits = {} THEN 0
     ELSE Number(fragment[CHOOSE i \in hits : \A j \in hits : i <= j][2])

\* part_001 lines 22-90: one line of the loop
statusLine(acc, line) ==
  IF StartsWithWords(line, <<"#", "branch.head">>)
    THEN LET head == line[3]
         IN [acc EXCEPT !.detachedHead = (head = "(detached)"),
                        !.branch = IF head = "(detached)" THEN "HEAD (detached)" ELSE head]
  ELSE IF StartsWithWords(line, <<"#", "branch.upstream">>)
    THEN [acc EXCEPT !.upstream = line[3]]
  ELSE IF StartsWithWords(line, <<"#", "branch.ab">>)
    THEN [acc EXCEPT !.ahead = signedCount(SliceFrom(line, 2), "+"),
                     !.behind = signedCount(SliceFrom(line, 2), "-")]
  ELSE IF StartsWithWords(line, <<"1">>) \/ StartsWithWords(line, <<"2">>)
    THEN placeChanged(acc, line)
  ELSE IF StartsWithWords(line, <<"u">>)
    THEN [acc EXCEPT !.conflicts = Append(@, FileChange(SliceFrom(line, 10), "conflicts", "U", "U"))]
  ELSE IF StartsWithWords(line, <<"?">>)
    THEN [acc EXCEPT !.untracked = Append(@, FileChange(SliceFrom(line, 1), "untracked", "?", "?"))]
  ELSE acc

RECURSIVE statusLines(_, _)
statusLines(lines, acc) ==
  IF lines = <<>> THEN acc
  ELSE statusLines(Tail(lines), statusLine(acc, Head(lines)))

\* parseStatusPorcelainV2(output): blank lines are dropped first
parseStatusPorcelainV2(output) ==
  statusLines(SelectSeq(output, LAMBDA line : line # <<>>), EmptyStatus)

\* the status codes of a record, and the records of `status --porcelain=v2 -b`
StatusCodes == {".", "M", "A", "D", "U"}

StatusShapes ==
  {[type |-> "1", xy |-> <<x, y>>] : x \in StatusCodes, y \in StatusCodes}
  \cup {[type |-> "2", xy |-> <<"R", "M">>]}
  \cup {[type |-> "u", xy |-> xy] : xy \in {<<"U", "U">>, <<"A", "A">>}}
  \cup {[type |-> t, xy |-> <<>>] : t \in {"?", "head", "upstream", "ab", "blank"}}

\* the path of the record on line i
PathOf(i) == IF i = 1 THEN "f1" ELSE IF i = 2 THEN "f2" ELSE IF i = 3 THEN "f3" ELSE "f4"

\* the line git prints for a record: its fields
StatusLineOf(shape, i) ==
  CASE shape.type = "1" ->
         <<"1", shape.xy, "N...", "100644", "100644", "100644", "h1", "h2", PathOf(i)>>
    [] shape.type = "2" ->
         <<"2", shape.xy, "N...", "100644", "100644", "100644", "h1", "h2", "R100", PathOf(i)>>
    [] shape.type = "u" ->
         <<"u", shape.xy, "N...", "100644", "100644", "100644", "100644", "h1", "h2", "h3", PathOf(i)>>
    [] shape.type = "?" -> <<"?", PathOf(i)>>
    [] shape.type = "head" -> <<"#", "branch.head", "main">>
    [] shape.type = "upstream" -> <<"#", "branch.upstream", "origin/main">>
    [] shape.type = "ab" -> <<"#", "branch.ab", <<"+", "2">>, <<"-", "1">>>>
    [] OTHER -> <<>>

StatusInputs ==
  {[i \in DOMAIN shapes |-> StatusLineOf(shapes[i], i)] :
     shapes \in UNION {[1..n -> StatusShapes] : n \in 0..MaxLines}}

\* text.replace(part, ''): the first occurrence of part is removed
ReplaceFirst(text, part) ==
  LET hits == {i \in 1..(Len(text) - Len(part) + 1) : SubSeq(text, i, i + Len(part) - 1) = part}
  IN IF hits = {} \/ part = <<>> THEN text
     ELSE LET i == CHOOSE h \in hits : \A k \in hits : h <= k
          IN SubSeq(text, 1, i - 1) \o SubSeq(text, i + Len(part), Len(text))

\* an optional field of a record: not set, or set to a text
None == <<>>
Some(text) == <<text>>

\* !field: the field is undefined or the empty text
Unset(field) == field = None \/ field = Some(<<>>)

\* Partial<WorktreeInfo> = {}
EmptyWorktree ==
  [path |-> None, head |-> None, branch |-> None, detached |-> FALSE, bare |-> FALSE,
   prunable |-> None]

\* part_001 lines 200-213: pushCurrent
pushCurrent(st) ==
  IF Unset(st.current.path) \/ Unset(st.current.head) THEN st
  ELSE [worktrees |-> Append(st.worktrees, st.current), current |-> EmptyWorktree]

\* part_001 lines 215-233: one line of the loop
worktreeLine(st, line) ==
  IF line = <<>> THEN pushCurrent(st)
  ELSE IF StartsWithWords(line, <<"worktree">>)
    THEN [st EXCEPT !.current.path = Some(ReplaceFirst(line, <<"worktree">>))]
  ELSE IF StartsWithWords(line, <<"HEAD">>)
    THEN [st EXCEPT !.current.head = Some(ReplaceFirst(line, <<"HEAD">>))]
  ELSE IF StartsWithWords(line, <<"branch">>)
    THEN [st EXCEPT !.current.branch = Some(ReplaceFirst(line, <<"branch", "refs/heads/">>))]
  ELSE IF line = <<"detached">> THEN [st EXCEPT !.current.detached = TRUE]
  ELSE IF line = <<"bare">> THEN [st EXCEPT !.current.bare = TRUE]
  ELSE IF StartsWithWords(line, <<"prunable">>)
    THEN [st EXCEPT !.current.prunable = Some(ReplaceFirst(line, <<"prunable">>))]
  ELSE st

RECURSIVE worktreeLines(_, _)
worktreeLines(lines, st) ==
  IF lines = <<>> THEN st
  ELSE worktreeLines(Tail(lines), worktreeLine(st, Head(lines)))

\* parseWorktrees(output)
parseWorktrees(output) ==
  pushCurrent(worktreeLines(output, [worktrees |-> <<>>, current |-> EmptyWorktree])).worktrees

\* the blocks of `worktree list --porcelain`: a block names its path and its HEAD
\* (a bare repository has no HEAD line) and one attribute
WorktreeBlocks ==
  [hasPath : BOOLEAN, hasHead : BOOLEAN,
   attr : {"none", "branch", "detached", "bare", "prunable"}]

\* the name of the branch checked out in block i
BranchOf(i) == IF i = 1 THEN "main" ELSE IF i = 2 THEN "dev" ELSE "topic"

\* the lines of block i, closed by a blank line
WorktreeBlockLines(block, i) ==
  (IF block.hasPath THEN << <<"worktree", PathOf(i)>> >> ELSE <<>>)
  \o (IF block.hasHead THEN << <<"HEAD", PathOf(i)>> >> ELSE <<>>)
  \o (CASE block.attr = "branch" -> << <<"branch", "refs/heads/", BranchOf(i)>> >>
        [] block.attr = "detached" -> << <<"detached">> >>
        [] block.attr = "bare" -> << <<"bare">> >>
        [] block.attr = "prunable" -> << <<"prunable", PathOf(i)>> >>
        [] OTHER -> <<>>)
  \o << <<>> >>

RECURSIVE WorktreeOutput(_, _)
WorktreeOutput(blocks, i) ==
  IF i > Len(blocks) THEN <<>>
  ELSE WorktreeBlockLines(blocks[i], i) \o WorktreeOutput(blocks, i + 1)

WorktreeInputs ==
  {WorktreeOutput(blocks, 1) : blocks \in UNION {[1..n -> WorktreeBlocks] : n \in 0..MaxBlocks}}

\* the first match of /<word> (\d+)/ in a text, as a number; 0 without a match
countAfter(text, word) ==
  LET hits == {i \in 1..(Len(text) - 1) : text[i] = word /\ text[i + 1] \in {"0", "1", "2"}}
  IN IF hits = {} THEN 0
     ELSE Number(text[(CHOOSE i \in hits : \A j \in hits : i <= j) + 1])

\* part_001 lines 3-7
parseAheadBehind(metadata) ==
  [ahead |-> countAfter(metadata, "ahead"), behind |-> countAfter(metadata, "behind")]

\* text.split('/')[0]
BeforeSlash(text) ==
  LET hits == {i \in DOMAIN text : text[i] = "/"}
  IN IF hits = {} THEN text
     ELSE SubSeq(text, 1, (CHOOSE i \in hits : \A j \in hits : i <= j) - 1)

\* mutant: the placeholder is taken for an upstream
upstreamOf_KeepsPlaceholder(upstreamRaw) ==
  IF upstreamRaw # <<>> THEN Some(upstreamRaw) ELSE None

\* part_001 line 113
upstreamOf(upstreamRaw) ==
  IF upstreamRaw # <<>> /\ upstreamRaw # <<"-">> THEN Some(upstreamRaw) ELSE None

\* part_001 lines 100-132: the BranchInfo of a row with a ref name
branchInfo(row, currentBranchName) ==
  LET refName == row[1]
      kind == IF StartsWith(refName, <<"refs/remotes/">>) THEN "remote" ELSE "local"
      short == ReplaceFirst(ReplaceFirst(refName, <<"refs/heads/">>), <<"refs/remotes/">>)
      upstream == upstreamOf(FieldOr(row, 1, <<>>))
      ab == parseAheadBehind(FieldOr(row, 2, <<>>))
      commitEpoch == Number(FieldOr(FieldOr(row, 3, <<"0">>), 0, "0"))
  IN [name |-> refName,
      shortName |-> short,
      kind |-> kind,
      remoteName |-> IF kind = "remote" THEN Some(BeforeSlash(short)) ELSE None,
      isCurrent |-> kind = "local" /\ Some(short) = currentBranchName,
      upstream |-> upstream,
      ahead |-> ab.ahead,
      behind |-> ab.behind,
      merged |-> ab.ahead = 0 /\ ab.behind = 0 /\ upstream # None,
      stale |-> kind = "local" /\ upstream = None,
      lastCommitEpochSeconds |-> IF commitEpoch > 0 THEN <<commitEpoch>> ELSE <<>>]

RECURSIVE branchRows(_, _, _)
branchRows(rows, currentBranchName, branches) ==
  IF rows = <<>> THEN branches
  ELSE IF FieldOr(Head(rows), 0, <<>>) = <<>>
    THEN branchRows(Tail(rows), currentBranchName, branches)
  ELSE branchRows(Tail(rows), currentBranchName,
                  Append(branches, branchInfo(Head(rows), currentBranchName)))

\* parseBranchRefs(output, currentBranchName): a row is the sequence of its
\* tab-separated fields; empty lines are dropped first
parseBranchRefs(output, currentBranchName) ==
  branchRows(SelectSeq(output, LAMBDA row : row # <<>> /\ row # << <<>> >>),
             currentBranchName, <<>>)

\* the rows of for-each-ref in the format of GitService.getBranches
RefNames ==
  {<<>>, <<"refs/heads/", "main">>, <<"refs/tags/", "v1">>, <<"refs/remotes/", "main">>}

BranchRowSet ==
  {<<ref, up, track, <<"1">>>> :
     ref \in RefNames,
     up \in {<<>>, <<"-">>, <<"origin", "/", "main">>},
     track \in {<<>>, <<"[", "ahead", "2", ",", "behind", "1", "]">>}}
  \cup {<< <<"refs/heads/", "main">> >>}

BranchInputs == UNION {[1..n -> BranchRowSet] : n \in 0..MaxRows}

\* the result of a parser call: none yet, or the one value returned
NotParsed == <<>>
IdleParse == [fn |-> "none", input |-> <<>>, current |-> None, done |-> FALSE, out |-> NotParsed]

\* a parser is about to be called on an output of git
InitParse ==
  parse \in {[fn |-> "parseStatusPorcelainV2", input |-> input, current |-> None,
              done |-> FALSE, out |-> NotParsed] : input \in StatusInputs}
          \cup {[fn |-> "parseWorktrees", input |-> input, current |-> None,
                  done |-> FALSE, out |-> NotParsed] : input \in WorktreeInputs}
          \cup {[fn |-> "parseBranchRefs", input |-> input, current |-> current,
                  done |-> FALSE, out |-> NotParsed] :
                   input \in BranchInputs, current \in {None, Some(<<"main">>)}}

ParseStatus ==
  /\ parse.fn = "parseStatusPorcelainV2"
  /\ ~parse.done
  /\ parse' = [parse EXCEPT !.done = TRUE, !.out = <<parseStatusPorcelainV2(parse.input)>>]

ParseWorktrees ==
  /\ parse.fn = "parseWorktrees"
  /\ ~parse.done
  /\ parse' = [parse EXCEPT !.done = TRUE, !.out = <<parseWorktrees(parse.input)>>]

ParseBranchRefs ==
  /\ parse.fn = "parseBranchRefs"
  /\ ~parse.done
  /\ parse' = [parse EXCEPT !.done = TRUE, !.out = <<parseBranchRefs(parse.input, parse.current)>>]

(***************************************************************************)
(* refreshRepositories called again before an earlier call has returned:   *)
(* one repository, whose state is the number of commands it has seen       *)
(***************************************************************************)
RefreshIds == 1..MaxRefreshes

NotRead == -1

IdleRefresh == [pc |-> "idle", force |-> FALSE, sampled |-> NotRead, next |-> NotRead, seq |-> 0]

IdleOverlap ==
  [version |-> 0, cached |-> NotRead, published |-> NotRead, publishedBy |-> 0,
   started |-> 0, calls |-> [r \in RefreshIds |-> IdleRefresh]]

\* line 230: this.repositories = next, in one assignment, by the call r whose loop
\* over the one repository has ended
publish(o, r, value) ==
  [o EXCEPT !.published = value, !.publishedBy = r,
            !.calls[r].next = value, !.calls[r].pc = "done"]

\* refreshRepositories(force) is called (a pass of the orchestrator, refreshAll of a
\* command or gitcc.refresh); detectRepositories is awaited
OvStart(r, force) ==
  /\ ov.calls[r].pc = "idle"
  /\ \A q \in RefreshIds : q < r => ov.calls[q].pc # "idle"
  /\ ov' = [ov EXCEPT !.started = @ + 1,
                      !.calls[r] = [IdleRefresh EXCEPT !.pc = "detect", !.force = force,
                                                       !.seq = ov.started + 1]]

\* detectRepositories resolves; lines 215-223: the entry of the repository is reused
\* when it is fresh (fresh: less than 3000 ms old) and the collection is replaced,
\* else getRepositoryInfo is awaited
OvLoop(r, fresh) ==
  /\ ov.calls[r].pc = "detect"
  /\ ov' = IF ~ov.calls[r].force /\ fresh /\ ov.cached # NotRead
           THEN publish(ov, r, ov.cached)
           ELSE [ov EXCEPT !.calls[r].pc = "info"]

\* getRepositoryInfo: `status` reads the repository; hasSubmodules is awaited next
OvSample(r) ==
  /\ ov.calls[r].pc = "info"
  /\ ov' = [ov EXCEPT !.calls[r].sampled = ov.version, !.calls[r].pc = "infoRead"]

\* lines 225-237: getRepositoryInfo resolves; cache.set(key, info); next.push(info);
\* the loop ends and the collection is replaced
OvInfoDone(r) ==
  /\ ov.calls[r].pc = "infoRead"
  /\ ov' = publish([ov EXCEPT !.cached = ov.calls[r].sampled], r, ov.calls[r].sampled)

\* getRepositoryInfo rejects: the call rejects and publishes nothing
OvInfoFail(r) ==
  /\ ov.calls[r].pc \in {"info", "infoRead"}
  /\ ov' = [ov EXCEPT !.calls[r].pc = "rejected"]

\* a mutating command on the repository completes
OvCommand ==
  /\ ov.version < MaxCommands
  /\ ov' = [ov EXCEPT !.version = @ + 1]

(***************************************************************************)
(* Parts that a specification of another part leaves idle                  *)
(***************************************************************************)
\* no handler on the call stack, nothing issued
IdleInvoke ==
  [active |-> RootA, confirmForcePush |-> TRUE, start |-> NoId, stack |-> <<>>, log |-> {},
   frames |-> 0]

\* BranchMemoryService.key (branchMemoryService.ts lines 44-46); the repoKey of every
\* caller is repo.rootUri.fsPath
memoryKey(repoKey) == <<"gitcc.branchMemory:">> \o repoKey
MemoryKeys == {memoryKey(root) : root \in Roots}

EmptyMemory == [favorites |-> <<>>, recents |-> <<>>]
NotStored == [stored |-> FALSE, value |-> EmptyMemory]

\* BranchMemoryService.get (lines 48-53): workspaceState.get with the empty default
memoryGet(state, repoKey) ==
  IF state[memoryKey(repoKey)].stored THEN state[memoryKey(repoKey)].value ELSE EmptyMemory

\* BranchMemoryService.save (lines 55-57): workspaceState.update
memorySave(state, repoKey, memory) ==
  [state EXCEPT ![memoryKey(repoKey)] = [stored |-> TRUE, value |-> memory]]

NoRecord == [done |-> FALSE, repoKey |-> NoId, branchName |-> "none"]

\* workspaceState without branch memory, no call made: per repository the branches
\* recorded so far in order, the number of recordCheckout calls, the last such call
\* and the state before it
IdleMemory ==
  [state |-> [k \in MemoryKeys |-> NotStored], history |-> [root \in Roots |-> <<>>],
   records |-> [root \in Roots |-> 0], last |-> NoRecord,
   before |-> [k \in MemoryKeys |-> NotStored]]

\* the parts added last, idle
InitLate ==
  /\ parse = IdleParse
  /\ others = 0
  /\ ov = IdleOverlap
  /\ inv = IdleInvoke
  /\ mem = IdleMemory

InitParts ==
  /\ sel = IdleSel
  /\ InitDebounce
  /\ InitStore
  /\ failure = IdleFailure
  /\ InitLate

(***************************************************************************)
(* Workflows: configuration, the repository, failures and their            *)
(* classification                                                          *)
(***************************************************************************)
Strategies == {"ask", "autoStash", "cancel"}
Remotes == {"origin", ""}

\* ConfigService.get(): the configuration snapshot a handler reads
ConfigGet(s) ==
  [pullRebase |-> s.pullRebase,
   defaultRemote |-> s.defaultRemote,
   smartCheckoutDefaultStrategy |-> s.smartCheckoutDefaultStrategy]

Settings ==
  [pullRebase : BOOLEAN, defaultRemote : Remotes, smartCheckoutDefaultStrategy : Strategies]

NoUpstream == "undefined"
Upstreams == {"origin/main"}
Branches == {"main", "feature/x"}

\* GitService.getStatus: the StatusInfo parsed from `status --porcelain=v2 -b`;
\* the four sections are given by their lengths
getStatus(g) ==
  [branch |-> g.branch, upstream |-> g.upstream, ahead |-> g.ahead, behind |-> g.behind,
   staged |-> g.staged, unstaged |-> g.unstaged, untracked |-> g.untracked,
   conflicts |-> g.conflicts]

NoStatus ==
  [branch |-> "none", upstream |-> NoUpstream, ahead |-> -1, behind |-> -1,
   staged |-> 0, unstaged |-> 0, untracked |-> 0, conflicts |-> 0]

NoConfig == [pullRebase |-> FALSE, defaultRemote |-> "none", smartCheckoutDefaultStrategy |-> "none"]

\* The text of a failure (message and stderr, case-folded) is given by the set of
\* known signatures it contains; message is the original Error.message.
NoError == [message |-> <<"none">>, sigs |-> {}]

\* what a failing git subprocess may report
GitFailures ==
  {[message |-> <<"Command failed: git">>, sigs |-> sg] :
     sg \in {{}, {"non-fast-forward"}, {"would be overwritten by checkout"},
             {"no upstream configured", "non-fast-forward"}}}

\* new Error('no upstream configured')
NoUpstreamError == [message |-> <<"no upstream configured">>, sigs |-> {"no upstream configured"}]

\* ErrorReporter.suggestAction(message, stderr)
suggestAction(message, sigs) ==
  IF "not a git repository" \in sigs
    THEN [message |-> <<"Selected folder is not a Git repository.">>, actions |-> <<>>]
  ELSE IF "no upstream configured" \in sigs
    THEN [message |-> <<"No upstream configured for this branch.">>, actions |-> <<"Set Upstream">>]
  ELSE IF "could not read from remote repository" \in sigs \/ "authentication failed" \in sigs
    THEN [message |-> <<"Authentication failed. Check credentials and use VS Code Git auth.">>,
          actions |-> <<>>]
  ELSE IF "pathspec" \in sigs
    THEN [message |-> <<"Branch or file was not found. Refresh and retry.">>, actions |-> <<>>]
  ELSE IF "nothing to commit" \in sigs
    THEN [message |-> <<"Nothing to commit. Stage changes first.">>, actions |-> <<>>]
  ELSE IF "merge conflict" \in sigs
    THEN [message |-> <<"Repository has conflicts. Resolve conflicts before continuing.">>,
          actions |-> <<>>]
  ELSE IF "would be overwritten by checkout" \in sigs
    THEN [message |-> <<"Checkout would overwrite local changes.">>, actions |-> <<"Smart Checkout">>]
  ELSE IF "non-fast-forward" \in sigs
    THEN [message |-> <<"Push rejected (non-fast-forward).">>,
          actions |-> <<"Pull then Push", "Force with Lease">>]
  ELSE [message |-> message, actions |-> <<>>]

Range(f) == {f[i] : i \in DOMAIN f}

\* the argument vectors GitService builds
StatusArgs == <<"status", "--porcelain=v2", "-b">>
\* mutant: the fetch does not prune
FetchArgs_NoPrune(remote) == <<"fetch">> \o (IF remote # "" THEN <<remote>> ELSE <<>>)
FetchArgs(remote) == <<"fetch", "--prune">> \o (IF remote # "" THEN <<remote>> ELSE <<>>)
PullArgs(rebase, remote) ==
  <<"pull">> \o (IF rebase THEN <<"--rebase">> ELSE <<>>) \o (IF remote # "" THEN <<remote>> ELSE <<>>)
PushArgs(remote, forceWithLease) ==
  <<"push">> \o (IF forceWithLease THEN <<"--force-with-lease">> ELSE <<>>)
             \o (IF remote # "" THEN <<remote>> ELSE <<>>)
RebaseArgs(branchName) == <<"rebase", branchName>>
MergeArgs(branchName) == <<"merge", "--no-ff", branchName>>
CheckoutArgs(branchName) == <<"checkout", branchName>>
StashPushArgs(hasMessage, keepIndex) ==
  <<"stash", "push">> \o (IF keepIndex THEN <<"--keep-index">> ELSE <<>>)
                      \o (IF hasMessage THEN <<"-m">> ELSE <<>>)
StashApplyArgs(ref, pop) == <<"stash", IF pop THEN "pop" ELSE "apply", ref>>
ForEachRefArgs == <<"for-each-ref">>

\* one git invocation of the running handler: its argument vector, the text of a
\* -m message, its outcome, the StatusInfo a status query returned, the invocation
\* (depth) and the part of withRepo that made it
Call(argv, msg, ok, out) ==
  [argv |-> argv, msg |-> msg, ok |-> ok, out |-> out, run |-> wf.depth,
   phase |-> IF wf.pc \in {"recoveryPull", "recoveryPush"} THEN "recovery" ELSE "body"]

Prompt(kind, answer) == [kind |-> kind, answer |-> answer, run |-> wf.depth]

Message(kind, operation, text, actions) ==
  [kind |-> kind, operation |-> operation, text |-> text, actions |-> actions, run |-> wf.depth]

IdleWf ==
  [cmd |-> "none", label |-> "none", pc |-> "idle", config |-> NoConfig, status |-> NoStatus,
   error |-> NoError, target |-> "none", strategy |-> "none", autoStashed |-> FALSE,
   recorded |-> FALSE, action |-> "none", followUp |-> "none", depth |-> 0,
   spawned |-> FALSE, inflight |-> 0]

CleanGit ==
  [branch |-> "main", upstream |-> "origin/main", ahead |-> 0, behind |-> 0,
   staged |-> 0, unstaged |-> 0, untracked |-> 0, conflicts |-> 0,
   stashes |-> <<>>, restored |-> <<>>]

InitWorkflowIdle ==
  /\ settings = [pullRebase |-> FALSE, defaultRemote |-> "origin",
                 smartCheckoutDefaultStrategy |-> "ask"]
  /\ git = CleanGit
  /\ wf = IdleWf
  /\ calls = <<>>
  /\ prompts = <<>>
  /\ messages = <<>>
  /\ recents = <<>>

\* an entry of the stash list: the command that created it and the tracked changes
\* it holds; stashes[1] is stash@{0}, restored holds the entry last applied or popped
StashEntry(by, staged, unstaged) == [by |-> by, staged |-> staged, unstaged |-> unstaged]

\* `git stash push [-m message]` (gitService.ts lines 275-284: no --include-untracked):
\* the tracked changes are saved as stash@{0}; without tracked changes git prints
\* "No local changes to save", exits 0 and creates no entry
stashPush(g, by) ==
  IF g.staged + g.unstaged = 0 THEN g
  ELSE [g EXCEPT !.staged = 0, !.unstaged = 0,
                 !.stashes = <<StashEntry(by, g.staged, g.unstaged)>> \o @]

\* `git stash apply|pop stash@{0}` exits 0: the changes of the first entry are back
stashApply(g, pop) ==
  [g EXCEPT !.staged = g.stashes[1].staged,
            !.unstaged = g.stashes[1].unstaged,
            !.restored = <<g.stashes[1]>>,
            !.stashes = IF pop THEN Tail(@) ELSE @]

\* the extension after activation, no command running
InitIdle ==
  /\ InitCache
  /\ InitRefresh
  /\ InitRegistry
  /\ InitParts
  /\ InitWorkflowIdle

(***************************************************************************)
(* withRepo: the boundary of every command handler                         *)
(***************************************************************************)
\* the positions of a handler whose next step is `await gitService.<command>(...)`
GitSteps ==
  {"fetch", "status1", "rebase", "merge", "pull", "status2", "push",
   "recoveryPull", "recoveryPush",
   "pickBranch", "scStatus", "stash", "checkout", "apply", "pop"}

\* mutant: the fetch of gitcc.sync is not awaited
AwaitedStep_FetchDetached(step) == IF step = "fetch" THEN "status1" ELSE step

\* await: the handler stays at the call until the subprocess has settled
AwaitedStep(step) == step

\* runGit -> runGitRaw: the git subprocess of the handler's next step is started
Spawn ==
  /\ wf.pc \in GitSteps
  /\ ~wf.spawned
  /\ wf' = [wf EXCEPT !.inflight = @ + 1,
                      !.pc = AwaitedStep(wf.pc),
                      !.spawned = (AwaitedStep(wf.pc) = wf.pc)]
  /\ UNCHANGED <<settings, git, calls, prompts, messages, recents>>

\* the handler after the subprocess it awaits has settled
Settled == [wf EXCEPT !.spawned = FALSE, !.inflight = @ - 1]

\* the awaited git subprocess of the handler exits 0
Issue(argv, msg) ==
  /\ wf.spawned
  /\ calls' = Append(calls, Call(argv, msg, TRUE, NoStatus))

\* the awaited `status --porcelain=v2 -b` exits 0 and is parsed
IssueStatus ==
  /\ wf.spawned
  /\ calls' = Append(calls, Call(StatusArgs, <<>>, TRUE, getStatus(git)))

\* mutant: the failure is swallowed and the step is taken again
Fails_Retries(argv, msg) ==
  /\ wf.spawned
  /\ \E err \in GitFailures :
       /\ calls' = Append(calls, Call(argv, msg, FALSE, NoStatus))
       /\ wf' = [Settled EXCEPT !.error = err]

\* the awaited git subprocess of the handler fails inside the try block of withRepo
Fails(argv, msg) ==
  /\ wf.spawned
  /\ \E err \in GitFailures :
       /\ calls' = Append(calls, Call(argv, msg, FALSE, NoStatus))
       /\ wf' = [Settled EXCEPT !.pc = "catch", !.error = err]

\* withRepo up to fn(repo): the handler body starts (entered) only with an active
\* repository
withRepo(cmd, label, hasRepo, entered) ==
  /\ wf.pc = "idle"
  /\ IF hasRepo
     THEN /\ wf' = [entered EXCEPT !.cmd = cmd, !.label = label]
          /\ UNCHANGED messages
     ELSE /\ wf' = [wf EXCEPT !.cmd = cmd, !.label = label, !.pc = "end"]
          /\ messages' = Append(messages,
               Message("warning", "none",
                       <<"No active repository. Open a folder with Git and select a repository.">>,
                       <<>>))

\* withRepo line 58: refreshAll after the body returned; a failure goes to the catch block
WfRefreshAll ==
  /\ wf.pc = "refresh"
  /\ \/ wf' = [wf EXCEPT !.pc = "end"]
     \/ \E err \in GitFailures : wf' = [wf EXCEPT !.pc = "catch", !.error = err]
  /\ UNCHANGED <<settings, git, calls, prompts, messages, recents>>

\* mutant: a dismissed notification runs 'Pull then Push'
runErrorAction_DismissedPulls(w, action) ==
  IF action = "undefined" THEN [w EXCEPT !.pc = "recoveryPull", !.action = action]
  ELSE IF action = "Set Upstream"
    THEN [w EXCEPT !.pc = "followUp", !.action = action, !.followUp = "gitcc.setUpstream"]
  ELSE IF action = "Smart Checkout"
    THEN [w EXCEPT !.pc = "followUp", !.action = action, !.followUp = "gitcc.smartCheckout"]
  ELSE IF action = "Pull then Push"
    THEN [w EXCEPT !.pc = "recoveryPull", !.action = action]
  ELSE IF action = "Force with Lease"
    THEN [w EXCEPT !.pc = "followUp", !.action = action,
                   !.followUp = "gitcc.forcePushWithLease"]
  ELSE [w EXCEPT !.pc = "end", !.action = action]

\* runErrorAction(action, deps, repoUri) up to its first await
runErrorAction(w, action) ==
  IF action = "undefined" THEN [w EXCEPT !.pc = "end", !.action = action]
  ELSE IF action = "Set Upstream"
    THEN [w EXCEPT !.pc = "followUp", !.action = action, !.followUp = "gitcc.setUpstream"]
  ELSE IF action = "Smart Checkout"
    THEN [w EXCEPT !.pc = "followUp", !.action = action, !.followUp = "gitcc.smartCheckout"]
  ELSE IF action = "Pull then Push"
    THEN [w EXCEPT !.pc = "recoveryPull", !.action = action]
  ELSE IF action = "Force with Lease"
    THEN [w EXCEPT !.pc = "followUp", !.action = action,
                   !.followUp = "gitcc.forcePushWithLease"]
  ELSE [w EXCEPT !.pc = "end", !.action = action]

\* the catch block of withRepo: ErrorReporter.show classifies the failure and shows it
\* with its recovery actions; the operator selects one or dismisses; runErrorAction
ShowError ==
  /\ wf.pc = "catch"
  /\ LET mapped == suggestAction(wf.error.message, wf.error.sigs)
     IN /\ messages' = Append(messages, Message("error", wf.label, mapped.message, mapped.actions))
        /\ \E selected \in Range(mapped.actions) \cup {"undefined"} :
             wf' = runErrorAction(wf, selected)
  /\ UNCHANGED <<settings, git, calls, prompts, recents>>

\* runErrorAction 'Pull then Push': pull; a failure here is outside the try block
RecoveryPull ==
  /\ wf.pc = "recoveryPull"
  /\ LET argv == PullArgs(settings.pullRebase, settings.defaultRemote)
     IN \/ /\ Issue(argv, <<>>)
           /\ \E a \in {git.ahead, git.ahead + 1} :
                /\ a <= MaxCount
                /\ git' = [git EXCEPT !.behind = 0, !.ahead = a]
           /\ wf' = [Settled EXCEPT !.pc = "recoveryPush"]
        \/ /\ wf.spawned
           /\ calls' = Append(calls, Call(argv, <<>>, FALSE, NoStatus))
           /\ \E err \in GitFailures : wf' = [Settled EXCEPT !.pc = "rejected", !.error = err]
           /\ UNCHANGED git
  /\ UNCHANGED <<settings, prompts, messages, recents>>

\* runErrorAction 'Pull then Push': push after the pull completed
RecoveryPush ==
  /\ wf.pc = "recoveryPush"
  /\ LET argv == PushArgs(settings.defaultRemote, FALSE)
     IN \/ /\ Issue(argv, <<>>)
           /\ git' = [git EXCEPT !.ahead = 0]
           /\ wf' = [Settled EXCEPT !.pc = "end"]
        \/ /\ wf.spawned
           /\ calls' = Append(calls, Call(argv, <<>>, FALSE, NoStatus))
           /\ \E err \in GitFailures : wf' = [Settled EXCEPT !.pc = "rejected", !.error = err]
           /\ UNCHANGED git
  /\ UNCHANGED <<settings, prompts, messages, recents>>

\* vscode.commands.executeCommand of a command whose handler is not part of this
\* specification (reentrant: the re-invoked commands the specification does run)
FollowUpDelegated(reentrant) ==
  /\ wf.pc = "followUp"
  /\ wf.followUp \notin reentrant \/ wf.depth >= MaxDepth
  /\ wf' = [wf EXCEPT !.pc = "end"]
  /\ UNCHANGED <<settings, git, calls, prompts, messages, recents>>

\* the positions of a handler whose next step calls ConfigService.get()
ConfigReadPoints == {"recoveryPull", "recoveryPush", "scStatus"}

\* the operator edits the gitcc settings while a handler runs (taken where the
\* handler is about to read them: elsewhere the edit is not observed before then)
ChangeConfiguration(allowed) ==
  /\ wf.pc \in ConfigReadPoints
  /\ ~wf.spawned
  /\ \E s \in allowed : s # settings /\ settings' = s
  /\ UNCHANGED <<git, wf, calls, prompts, messages, recents>>

(***************************************************************************)
(* gitcc.sync                                                              *)
(***************************************************************************)
DivergenceChoices ==
  {"Rebase onto upstream", "Merge upstream into current", "Cancel", "undefined"}

\* lines 157-168: the handler reads the configuration once, before the fetch
StartSync(hasRepo) ==
  /\ withRepo("gitcc.sync", "Sync", hasRepo,
              [wf EXCEPT !.pc = "fetch", !.config = ConfigGet(settings)])
  /\ UNCHANGED <<settings, git, calls, prompts, recents>>

\* line 169: fetch of the configured remote
SyncFetch ==
  /\ wf.cmd = "gitcc.sync" /\ wf.pc = "fetch"
  /\ LET argv == FetchArgs(wf.config.defaultRemote)
     IN \/ /\ Issue(argv, <<>>)
           /\ \E b \in git.behind..MaxCount : git' = [git EXCEPT !.behind = b]
           /\ wf' = [Settled EXCEPT !.pc = "status1"]
        \/ /\ Fails(argv, <<>>)
           /\ UNCHANGED git
  /\ UNCHANGED <<settings, prompts, messages, recents>>

\* mutant: behind is tested first, so a diverged branch is pulled without asking
Classify_BehindFirst(status) ==
  IF status.behind > 0 THEN "pull"
  ELSE IF status.ahead > 0 /\ status.behind > 0 THEN "choose"
  ELSE "status2"

\* lines 172-195: the step that follows the status read after fetch
Classify(status) ==
  IF status.ahead > 0 /\ status.behind > 0 THEN "choose"
  ELSE IF status.behind > 0 THEN "pull"
  ELSE "status2"

\* line 171: the status read after fetch, and the classification
SyncStatus ==
  /\ wf.cmd = "gitcc.sync" /\ wf.pc = "status1"
  /\ \/ /\ IssueStatus
        /\ wf' = [Settled EXCEPT !.status = getStatus(git), !.pc = Classify(getStatus(git))]
     \/ Fails(StatusArgs, <<>>)
  /\ UNCHANGED <<settings, git, prompts, messages, recents>>

\* mutant: only the 'Cancel' item ends the run; a dismissed prompt goes on to merge
AfterChoice_DismissProceeds(w, choice) ==
  IF choice = "Cancel" THEN [w EXCEPT !.pc = "refresh"]
  ELSE IF choice = "Rebase onto upstream"
    THEN IF w.status.upstream = NoUpstream
         THEN [w EXCEPT !.pc = "catch", !.error = NoUpstreamError]
         ELSE [w EXCEPT !.pc = "rebase"]
  ELSE IF w.status.upstream = NoUpstream
         THEN [w EXCEPT !.pc = "catch", !.error = NoUpstreamError]
         ELSE [w EXCEPT !.pc = "merge"]

\* mutant: the merge branch does not check the upstream
AfterChoice_MergeUnchecked(w, choice) ==
  IF choice = "Cancel" \/ choice = "undefined" THEN [w EXCEPT !.pc = "refresh"]
  ELSE IF choice = "Rebase onto upstream"
    THEN IF w.status.upstream = NoUpstream
         THEN [w EXCEPT !.pc = "catch", !.error = NoUpstreamError]
         ELSE [w EXCEPT !.pc = "rebase"]
  ELSE [w EXCEPT !.pc = "merge"]

\* lines 177-191: what follows the operator's answer to the divergence prompt
AfterChoice(w, choice) ==
  IF choice = "Cancel" \/ choice = "undefined" THEN [w EXCEPT !.pc = "refresh"]
  ELSE IF choice = "Rebase onto upstream"
    THEN IF w.status.upstream = NoUpstream
         THEN [w EXCEPT !.pc = "catch", !.error = NoUpstreamError]
         ELSE [w EXCEPT !.pc = "rebase"]
  ELSE IF w.status.upstream = NoUpstream
         THEN [w EXCEPT !.pc = "catch", !.error = NoUpstreamError]
         ELSE [w EXCEPT !.pc = "merge"]

\* lines 173-191: the divergence prompt
SyncChoose ==
  /\ wf.cmd = "gitcc.sync" /\ wf.pc = "choose"
  /\ \E choice \in DivergenceChoices :
       /\ prompts' = Append(prompts, Prompt("divergence", choice))
       /\ wf' = AfterChoice(wf, choice)
  /\ UNCHANGED <<settings, git, calls, messages, recents>>

\* a corrective command settles: on success the branch is no longer behind
Corrective(argv) ==
  /\ \/ /\ Issue(argv, <<>>)
        /\ \E a \in 0..MaxCount : git' = [git EXCEPT !.behind = 0, !.ahead = a]
        /\ wf' = [Settled EXCEPT !.pc = "status2"]
     \/ /\ Fails(argv, <<>>)
        /\ UNCHANGED git
  /\ UNCHANGED <<settings, prompts, messages, recents>>

\* line 185
SyncRebase ==
  /\ wf.cmd = "gitcc.sync" /\ wf.pc = "rebase"
  /\ Corrective(RebaseArgs(wf.status.upstream))

\* line 190
SyncMerge ==
  /\ wf.cmd = "gitcc.sync" /\ wf.pc = "merge"
  /\ Corrective(MergeArgs(wf.status.upstream))

\* line 194
SyncPull ==
  /\ wf.cmd = "gitcc.sync" /\ wf.pc = "pull"
  /\ Corrective(PullArgs(wf.config.pullRebase, wf.config.defaultRemote))

\* mutant: the push is decided on the status read before the corrective step
PushIfAhead_Stale(before, after) == before.ahead > 0

\* line 198: `status` is the value re-read on line 197 (after), not the one
\* read on line 171 (before)
PushIfAhead(before, after) == after.ahead > 0

\* lines 197-204: the status re-read; push only if it reports ahead > 0
SyncRecheck ==
  /\ wf.cmd = "gitcc.sync" /\ wf.pc = "status2"
  /\ \/ /\ IssueStatus
        /\ IF PushIfAhead(wf.status, getStatus(git))
           THEN /\ wf' = [Settled EXCEPT !.status = getStatus(git), !.pc = "push"]
                /\ UNCHANGED messages
           ELSE /\ wf' = [Settled EXCEPT !.status = getStatus(git), !.pc = "refresh"]
                /\ messages' = Append(messages, Message("info", "none", <<"Sync complete.">>, <<>>))
     \/ /\ Fails(StatusArgs, <<>>)
        /\ UNCHANGED messages
  /\ UNCHANGED <<settings, git, prompts, recents>>

\* lines 200-204
SyncPush ==
  /\ wf.cmd = "gitcc.sync" /\ wf.pc = "push"
  /\ LET argv == PushArgs(wf.config.defaultRemote, FALSE)
     IN \/ /\ Issue(argv, <<>>)
           /\ git' = [git EXCEPT !.ahead = 0]
           /\ wf' = [Settled EXCEPT !.pc = "refresh"]
           /\ messages' = Append(messages, Message("info", "none", <<"Sync complete.">>, <<>>))
        \/ /\ Fails(argv, <<>>)
           /\ UNCHANGED <<git, messages>>
  /\ UNCHANGED <<settings, prompts, recents>>

\* the settings gitcc.sync and its recovery read
SyncSettings == {s \in Settings : s.smartCheckoutDefaultStrategy = "ask"}

InitSync ==
  /\ InitCache
  /\ InitRefresh
  /\ InitRegistry
  /\ InitParts
  /\ settings \in SyncSettings
  /\ git \in [branch : {"main"}, upstream : Upstreams \cup {NoUpstream},
              ahead : 0..MaxCount, behind : 0..MaxCount,
              staged : {0}, unstaged : {0}, untracked : {0}, conflicts : {0},
              stashes : {<<>>}, restored : {<<>>}]
  /\ wf = IdleWf
  /\ calls = <<>>
  /\ prompts = <<>>
  /\ messages = <<>>
  /\ recents = <<>>

NextSync ==
  /\ \/ \E hasRepo \in BOOLEAN : StartSync(hasRepo)
     \/ Spawn
     \/ SyncFetch
     \/ SyncStatus
     \/ SyncChoose
     \/ SyncRebase
     \/ SyncMerge
     \/ SyncPull
     \/ SyncRecheck
     \/ SyncPush
     \/ WfRefreshAll
     \/ ShowError
     \/ RecoveryPull
     \/ RecoveryPush
     \/ FollowUpDelegated({})
     \/ ChangeConfiguration(SyncSettings)
  /\ UNCHANGED <<cacheVars, refreshVars, registryVars, partVars>>

SpecSync == InitSync /\ [][NextSync]_vars

(***************************************************************************)
(* Properties of gitcc.sync                                                *)
(***************************************************************************)
\* the git invocations of the handler body (not those of a recovery action)
BodyCalls == SelectSeq(calls, LAMBDA c : c.phase = "body")

IsMutating(c) == c.argv[1] \in writeCommands
IsCorrective(c) == c.argv[1] \in {"rebase", "merge", "pull"}

\* the commands (args[0]) of the mutating invocations of a call sequence
MutatingCommands(cs) ==
  LET m == SelectSeq(cs, IsMutating) IN [i \in 1..Len(m) |-> m[i].argv[1]]

Answered(kind, answers) ==
  \E i \in 1..Len(prompts) : prompts[i].kind = kind /\ prompts[i].answer \in answers

\* the status read after fetch succeeded (it is the second call of the body)
ClassifiedSync ==
  /\ wf.cmd = "gitcc.sync"
  /\ Len(BodyCalls) >= 2
  /\ BodyCalls[2].argv = StatusArgs /\ BodyCalls[2].ok

\* the status re-read of the push step succeeded (it is the last status call of the body)
RecheckedSync ==
  /\ ClassifiedSync
  /\ \E i \in 3..Len(BodyCalls) : BodyCalls[i].argv = StatusArgs /\ BodyCalls[i].ok

\* the StatusInfo the re-read returned
RecheckOut ==
  LET i == CHOOSE i \in 3..Len(BodyCalls) : BodyCalls[i].argv = StatusArgs /\ BodyCalls[i].ok
  IN BodyCalls[i].out

PushInvoked == \E i \in 1..Len(BodyCalls) : BodyCalls[i].argv[1] = "push"

\* C4: in every Sync run the first git command is `fetch --prune <configured remote>`;
\* the mutating commands of the run are fetch, then at most one of rebase / merge /
\* pull, then at most one push; and when the operator chose rebase on a diverged
\* branch and the re-read status is still ahead, the mutating calls are exactly
\* fetch, rebase onto the upstream, push (without force).
C4_SyncCallOrder ==
  wf.cmd = "gitcc.sync" =>
    LET b == BodyCalls
        m == SelectSeq(b, IsMutating)
        cmds == MutatingCommands(b)
    IN /\ Len(b) > 0 =>
            /\ Len(b[1].argv) >= 2
            /\ b[1].argv[1] = "fetch" /\ b[1].argv[2] = "--prune"
            /\ IF wf.config.defaultRemote = "" THEN Len(b[1].argv) = 2
               ELSE Len(b[1].argv) = 3 /\ b[1].argv[3] = wf.config.defaultRemote
       /\ \/ cmds \in {<<>>, <<"fetch">>, <<"fetch", "push">>}
          \/ \E c \in {"rebase", "merge", "pull"} :
               cmds \in {<<"fetch", c>>, <<"fetch", c, "push">>}
       /\ (/\ Answered("divergence", {"Rebase onto upstream"})
           /\ RecheckedSync
           /\ RecheckOut.ahead > 0
           /\ wf.pc # "push")
          => /\ cmds = <<"fetch", "rebase", "push">>
             /\ m[2].argv = <<"rebase", BodyCalls[2].out.upstream>>
             /\ "--force-with-lease" \notin Range(m[3].argv)

\* C4 witness: a diverged run, rebased, still ahead, pushed and finished
C4_Witness ==
  /\ wf.cmd = "gitcc.sync" /\ wf.pc = "end"
  /\ ClassifiedSync
  /\ BodyCalls[2].out.ahead = 2 /\ BodyCalls[2].out.behind = 1
  /\ Answered("divergence", {"Rebase onto upstream"})
  /\ MutatingCommands(BodyCalls) = <<"fetch", "rebase", "push">>
  /\ BodyCalls[Len(BodyCalls)].ok

\* C5: push is invoked only after the status re-read, and if and only if that
\* re-read reports ahead > 0, whatever the status read before the corrective step said.
C5_PushIffStillAhead ==
  wf.cmd = "gitcc.sync" =>
    /\ (wf.pc = "push" \/ PushInvoked) => RecheckedSync
    /\ RecheckedSync => ((wf.pc = "push" \/ PushInvoked) <=> RecheckOut.ahead > 0)

\* C5 witness: ahead before the corrective step, not ahead at the re-read, no push
C5_Witness ==
  /\ RecheckedSync
  /\ BodyCalls[2].out.ahead > 0
  /\ \E i \in 1..Len(BodyCalls) : IsCorrective(BodyCalls[i]) /\ BodyCalls[i].ok
  /\ RecheckOut.ahead = 0
  /\ ~PushInvoked
  /\ wf.pc = "end"

\* C6: when the operator cancels or dismisses the divergence choice, the run body
\* ends there: no rebase, merge, pull or push, its only mutating command is the fetch.
C6_CancelStopsSync ==
  (wf.cmd = "gitcc.sync" /\ Answered("divergence", {"Cancel", "undefined"})) =>
    /\ MutatingCommands(BodyCalls) = <<"fetch">>
    /\ Len(BodyCalls) = 2
    /\ wf.pc \notin {"rebase", "merge", "pull", "status2", "push"}

\* C6 witness: a diverged run that was dismissed and has finished
C6_Witness ==
  /\ wf.cmd = "gitcc.sync" /\ wf.pc = "end"
  /\ ClassifiedSync
  /\ BodyCalls[2].out.ahead > 0 /\ BodyCalls[2].out.behind > 0
  /\ Answered("divergence", {"undefined"})

\* C7: the corrective step follows the counts read after fetch. Only behind: one pull,
\* with --rebase iff pullRebase is configured, and no prompt. Not behind: no rebase,
\* merge or pull, and no prompt. The operator is prompted exactly when diverged.
C7_CorrectiveStep ==
  ClassifiedSync =>
    LET s == BodyCalls[2].out
        b == BodyCalls
        corrective == SelectSeq(b, IsCorrective)
    IN /\ (s.behind > 0 /\ s.ahead = 0) =>
            /\ prompts = <<>>
            /\ \/ wf.pc = "pull" /\ Len(corrective) = 0
               \/ /\ Len(corrective) = 1
                  /\ b[3] = corrective[1]
                  /\ corrective[1].argv[1] = "pull"
                  /\ ("--rebase" \in Range(corrective[1].argv)) <=> wf.config.pullRebase
       /\ s.behind = 0 =>
            /\ prompts = <<>>
            /\ Len(corrective) = 0
            /\ wf.pc \notin {"choose", "rebase", "merge", "pull"}
       /\ (wf.pc = "choose" \/ prompts # <<>>) <=> (s.ahead > 0 /\ s.behind > 0)
       /\ Len(prompts) <= 1

\* C7 witness: only behind, pullRebase configured, `pull --rebase` ran
C7_Witness ==
  /\ ClassifiedSync
  /\ BodyCalls[2].out.behind > 0 /\ BodyCalls[2].out.ahead = 0
  /\ wf.config.pullRebase
  /\ Len(BodyCalls) >= 3 /\ BodyCalls[3].argv[1] = "pull" /\ BodyCalls[3].argv[2] = "--rebase"
  /\ BodyCalls[3].ok
  /\ wf.pc = "end"

\* C8: diverged with no upstream in the status read after fetch: choosing rebase or
\* merge fails with 'no upstream configured' before any rebase or merge, nothing is
\* pushed, and the failure is shown as the missing-upstream message with the single
\* recovery action 'Set Upstream'.
C8_MissingUpstream ==
  (/\ ClassifiedSync
   /\ BodyCalls[2].out.upstream = NoUpstream
   /\ Answered("divergence", {"Rebase onto upstream", "Merge upstream into current"})) =>
    /\ MutatingCommands(calls) = <<"fetch">>
    /\ Len(calls) = 2
    /\ wf.error.message = <<"no upstream configured">>
    /\ wf.pc \in {"catch", "followUp", "end"}
    /\ wf.pc # "catch" =>
         /\ Len(messages) = 1
         /\ messages[1].kind = "error"
         /\ messages[1].operation = "Sync"
         /\ messages[1].text = <<"No upstream configured for this branch.">>
         /\ messages[1].actions = <<"Set Upstream">>

\* C8 witness: merge chosen without an upstream, the failure shown, 'Set Upstream' taken
C8_Witness ==
  /\ ClassifiedSync
  /\ BodyCalls[2].out.upstream = NoUpstream
  /\ Answered("divergence", {"Merge upstream into current"})
  /\ Len(messages) = 1
  /\ wf.action = "Set Upstream"
  /\ wf.pc = "end"

(***************************************************************************)
(* gitcc.smartCheckout                                                     *)
(***************************************************************************)
StrategyChoices == {"auto", "commit", "cancel", "undefined"}
RestoreChoices == {"Apply", "Pop", "Later", "undefined"}
RecentsLimit == 10

ConflictsMessage == <<"Resolve conflicts before switching branches.">>

\* mutant: the branch is appended as the least recent entry
recordCheckout_AtEnd(rec, branchName) ==
  LET moved == SelectSeq(rec, LAMBDA name : name # branchName) \o <<branchName>>
  IN SubSeq(moved, 1, IF Len(moved) < RecentsLimit THEN Len(moved) ELSE RecentsLimit)

\* BranchMemoryService.recordCheckout
recordCheckout(rec, branchName) ==
  LET moved == <<branchName>> \o SelectSeq(rec, LAMBDA name : name # branchName)
  IN SubSeq(moved, 1, IF Len(moved) < RecentsLimit THEN Len(moved) ELSE RecentsLimit)

\* mutant: a clean tree counts as dirty
Dirty_CleanIsDirty(status) ==
  status.staged + status.unstaged + status.untracked + status.conflicts >= 0

\* the dirty test of the handler
Dirty(status) == status.staged + status.unstaged + status.untracked + status.conflicts > 0

\* mutant: an unknown or interactive strategy cancels; cancel asks
StrategyStep_CancelAsks(strategy) ==
  IF strategy = "autoStash" THEN "stash"
  ELSE IF strategy = "cancel" THEN "askStrategy"
  ELSE "refresh"

\* the step the configured strategy leads to on a dirty tree
StrategyStep(strategy) ==
  IF strategy = "autoStash" THEN "stash"
  ELSE IF strategy = "cancel" THEN "refresh"
  ELSE "askStrategy"

\* mutant: the conflict check comes after the dirty-state resolution
AfterStatus_ConflictsUnchecked(status, strategy) ==
  IF Dirty(status) THEN StrategyStep(strategy)
  ELSE "checkout"

\* the step after the status read: conflicts end the run, a dirty tree goes
\* to the strategy, a clean tree to the checkout
AfterStatus(status, strategy) ==
  IF status.conflicts > 0 THEN "conflicts"
  ELSE IF Dirty(status) THEN StrategyStep(strategy)
  ELSE "checkout"

\* mutant: a dismissed strategy prompt stashes
AfterStrategyChoice_DismissStashes(choice) ==
  IF choice = "commit" THEN "commitFlow"
  ELSE IF choice = "cancel" THEN "refresh"
  ELSE "stash"

\* action = pick?.value ?? 'cancel', then the two early returns
AfterStrategyChoice(choice) ==
  IF choice = "commit" THEN "commitFlow"
  ELSE IF choice \in {"cancel", "undefined"} THEN "refresh"
  ELSE "stash"

\* mutant: the stash message does not name the branch
AutoStashMessage_NoBranch(status) == <<"auto:", "timestamp">>

\* `auto: ${timestamp} ${status.branch}`
AutoStashMessage(status) == <<"auto:", "timestamp", status.branch>>

\* mutant: declining the offer pops the stash
AfterRestoreChoice_LaterPops(choice) ==
  IF choice = "Apply" THEN "apply"
  ELSE IF choice \in {"Pop", "Later"} THEN "pop"
  ELSE "refresh"

\* the step the answer to 'Apply stash now?' leads to
AfterRestoreChoice(choice) ==
  IF choice = "Apply" THEN "apply"
  ELSE IF choice = "Pop" THEN "pop"
  ELSE "refresh"

\* the command is invoked with a branch (from the branches view) or without one
StartSmartCheckout(hasRepo, branchArg) ==
  /\ withRepo("gitcc.smartCheckout", "Smart Checkout", hasRepo,
              [wf EXCEPT !.pc = IF branchArg = "undefined" THEN "pickBranch" ELSE "scStatus",
                         !.target = branchArg])
  /\ UNCHANGED <<settings, git, calls, prompts, recents>>

\* pickBranch: the branch list (from the cache or from for-each-ref), then the pick;
\* a dismissed pick returns from the handler
ScPickBranch ==
  /\ wf.pc = "pickBranch"
  /\ \/ /\ Fails(ForEachRefArgs, <<>>)
        /\ UNCHANGED prompts
     \/ /\ \E cached \in BOOLEAN :
             IF cached THEN ~wf.spawned /\ UNCHANGED calls ELSE Issue(ForEachRefArgs, <<>>)
        /\ \E selected \in Branches \cup {"undefined"} :
             /\ prompts' = Append(prompts, Prompt("target", selected))
             /\ wf' = [wf EXCEPT !.spawned = FALSE,
                                 !.inflight = IF wf.spawned THEN @ - 1 ELSE @,
                                 !.target = selected,
                                 !.pc = IF selected = "undefined" THEN "refresh" ELSE "scStatus"]
  /\ UNCHANGED <<settings, git, messages, recents>>

\* lines 370-396: the status read, the conflict check and the configured strategy
ScStatus ==
  /\ wf.pc = "scStatus"
  /\ \/ /\ Fails(StatusArgs, <<>>)
        /\ UNCHANGED messages
     \/ /\ IssueStatus
        /\ LET status == getStatus(git)
               strategy == ConfigGet(settings).smartCheckoutDefaultStrategy
               step == AfterStatus(status, strategy)
           IN IF step = "conflicts"
              THEN /\ messages' = Append(messages,
                        Message("error", "none", ConflictsMessage, <<>>))
                   /\ wf' = [Settled EXCEPT !.status = status, !.pc = "refresh"]
              ELSE /\ UNCHANGED messages
                   /\ wf' = [Settled EXCEPT !.status = status, !.pc = step,
                                            !.strategy = IF Dirty(status) THEN strategy ELSE "none"]
  /\ UNCHANGED <<settings, git, prompts, recents>>

\* the strategy quick pick
ScAskStrategy ==
  /\ wf.pc = "askStrategy"
  /\ \E choice \in StrategyChoices :
       /\ prompts' = Append(prompts, Prompt("strategy", choice))
       /\ wf' = [wf EXCEPT !.pc = AfterStrategyChoice(choice)]
  /\ UNCHANGED <<settings, git, calls, messages, recents>>

\* executeCommand('gitcc.commit'): the commit view is focused; the handler returns
ScCommitFlow ==
  /\ wf.pc = "commitFlow"
  /\ wf' = [wf EXCEPT !.pc = "refresh", !.followUp = "gitcc.commit"]
  /\ UNCHANGED <<settings, git, calls, prompts, messages, recents>>

\* gitService.stash(root, `auto: ${timestamp} ${status.branch}`)
ScStash ==
  /\ wf.pc = "stash"
  /\ LET argv == StashPushArgs(TRUE, FALSE)
         msg == AutoStashMessage(wf.status)
     IN \/ /\ Issue(argv, msg)
           /\ git' = stashPush(git, "auto")
           /\ wf' = [Settled EXCEPT !.pc = "checkout", !.autoStashed = TRUE]
        \/ /\ Fails(argv, msg)
           /\ UNCHANGED git
  /\ UNCHANGED <<settings, prompts, messages, recents>>

\* gitService.checkoutBranch(root, target.shortName)
ScCheckout ==
  /\ wf.pc = "checkout"
  /\ LET argv == CheckoutArgs(wf.target)
     IN \/ /\ Issue(argv, <<>>)
           /\ git' = [git EXCEPT !.branch = wf.target]
           /\ wf' = [Settled EXCEPT !.pc = "record"]
        \/ /\ Fails(argv, <<>>)
           /\ UNCHANGED git
  /\ UNCHANGED <<settings, prompts, messages, recents>>

\* branchMemoryService.recordCheckout(root, target.shortName)
ScRecord ==
  /\ wf.pc = "record"
  /\ recents' = recordCheckout(recents, wf.target)
  /\ wf' = [wf EXCEPT !.recorded = TRUE,
                      !.pc = IF wf.autoStashed THEN "offer" ELSE "refresh"]
  /\ UNCHANGED <<settings, git, calls, prompts, messages>>

\* 'Auto-stash created. Apply stash now?'
ScOffer ==
  /\ wf.pc = "offer"
  /\ \E choice \in RestoreChoices :
       /\ prompts' = Append(prompts, Prompt("restore", choice))
       /\ wf' = [wf EXCEPT !.pc = AfterRestoreChoice(choice)]
  /\ UNCHANGED <<settings, git, calls, messages, recents>>

\* gitService.stashApply(root, 'stash@{0}', pop)
ScStashApply ==
  /\ wf.pc \in {"apply", "pop"}
  /\ LET pop == wf.pc = "pop"
         argv == StashApplyArgs("stash@{0}", pop)
     IN \/ /\ git.stashes # <<>>
           /\ Issue(argv, <<>>)
           /\ git' = stashApply(git, pop)
           /\ wf' = [Settled EXCEPT !.pc = "refresh"]
        \/ /\ Fails(argv, <<>>)
           /\ git' = IF git.stashes # <<>> THEN [git EXCEPT !.conflicts = MaxFiles] ELSE git
  /\ UNCHANGED <<settings, prompts, messages, recents>>

\* runErrorAction 'Smart Checkout': executeCommand('gitcc.smartCheckout') without a
\* branch argument runs the handler again; calls, prompts and messages are those of
\* the running invocation
FollowUpSmartCheckout(hasRepo) ==
  /\ wf.pc = "followUp"
  /\ wf.followUp = "gitcc.smartCheckout"
  /\ wf.depth < MaxDepth
  /\ calls' = <<>>
  /\ prompts' = <<>>
  /\ IF hasRepo
     THEN /\ wf' = [IdleWf EXCEPT !.cmd = "gitcc.smartCheckout", !.label = "Smart Checkout",
                                  !.pc = "pickBranch", !.depth = wf.depth + 1]
          /\ messages' = <<>>
     ELSE /\ wf' = [IdleWf EXCEPT !.cmd = "gitcc.smartCheckout", !.label = "Smart Checkout",
                                  !.pc = "end", !.depth = wf.depth + 1]
          /\ messages' =
               <<[kind |-> "warning", operation |-> "none",
                  text |-> <<"No active repository. Open a folder with Git and select a repository.">>,
                  actions |-> <<>>, run |-> wf.depth + 1]>>
  /\ UNCHANGED <<settings, git, recents>>

CheckoutSettings ==
  {s \in Settings : s.defaultRemote = "origin" /\ ~s.pullRebase}

InitCheckout ==
  /\ InitCache
  /\ InitRefresh
  /\ InitRegistry
  /\ InitParts
  /\ settings \in CheckoutSettings
  /\ \E st, un, ut, cf \in 0..MaxFiles :
       /\ st + un + ut <= MaxFiles
       /\ git = [CleanGit EXCEPT !.staged = st, !.unstaged = un, !.untracked = ut,
                                 !.conflicts = cf]
  /\ wf = IdleWf
  /\ calls = <<>>
  /\ prompts = <<>>
  /\ messages = <<>>
  /\ recents = <<>>

NextCheckout ==
  /\ \/ \E hasRepo \in BOOLEAN, branchArg \in Branches \cup {"undefined"} :
          StartSmartCheckout(hasRepo, branchArg)
     \/ Spawn
     \/ ScPickBranch
     \/ ScStatus
     \/ ScAskStrategy
     \/ ScCommitFlow
     \/ ScStash
     \/ ScCheckout
     \/ ScRecord
     \/ ScOffer
     \/ ScStashApply
     \/ WfRefreshAll
     \/ ShowError
     \/ RecoveryPull
     \/ RecoveryPush
     \/ \E hasRepo \in BOOLEAN : FollowUpSmartCheckout(hasRepo)
     \/ FollowUpDelegated({"gitcc.smartCheckout"})
     \/ ChangeConfiguration(CheckoutSettings)
  /\ UNCHANGED <<cacheVars, refreshVars, registryVars, partVars>>

SpecCheckout == InitCheckout /\ [][NextCheckout]_vars

(***************************************************************************)
(* Smart Checkout: properties                                              *)
(***************************************************************************)
\* the running invocation is Smart Checkout and its status read has returned
CheckoutStatusRead ==
  /\ wf.cmd = "gitcc.smartCheckout"
  /\ wf.status # NoStatus

\* the commands (args[0]) of the invocations of the running handler
CommandsIssued == {c.argv[1] : c \in Range(calls)}

PromptKinds == {q.kind : q \in Range(prompts)}

\* positions after the handler body has returned or thrown
AfterBody == {"refresh", "catch", "followUp", "recoveryPull", "recoveryPush", "rejected", "end"}

\* C9: when the status read of Smart Checkout reports conflicts, the run shows the
\* error 'Resolve conflicts before switching branches.' and returns: no stash, no
\* checkout, no branch-memory recording, no stash apply or pop, and neither the
\* strategy prompt nor the restore prompt, whatever the configured strategy.
C9_ConflictsStopCheckout ==
  (CheckoutStatusRead /\ wf.status.conflicts > 0) =>
    /\ wf.pc \in AfterBody
    /\ \E i \in DOMAIN messages :
         /\ messages[i].kind = "error"
         /\ messages[i].text = ConflictsMessage
         /\ \A j \in 1..(i - 1) : messages[j].kind # "error"
    /\ CommandsIssued \cap {"stash", "checkout"} = {}
    /\ MutatingCommands(BodyCalls) = <<>>
    /\ ~wf.recorded
    /\ ~wf.autoStashed
    /\ PromptKinds \cap {"strategy", "restore"} = {}

\* C9 witness: conflicts with the autoStash strategy configured; the run has ended
\* with the message and only the status read
C9_Witness ==
  /\ CheckoutStatusRead
  /\ wf.status.conflicts > 0
  /\ wf.status.unstaged > 0
  /\ settings.smartCheckoutDefaultStrategy = "autoStash"
  /\ wf.pc = "end"
  /\ Len(messages) = 1
  /\ messages[1].text = ConflictsMessage
  /\ Len(calls) = 1

\* the run reached the dirty-state resolution: no conflicts and a dirty tree
DirtyResolution ==
  /\ CheckoutStatusRead
  /\ wf.status.conflicts = 0
  /\ Dirty(wf.status)

StrategyPrompted == wf.pc = "askStrategy" \/ "strategy" \in PromptKinds

\* C10: on a dirty tree the strategy prompt is shown exactly when the configured
\* strategy is 'ask'; with autoStash the run goes to the stash without a prompt,
\* with cancel it returns without a prompt and without a stash or checkout; outside
\* the dirty-state resolution the strategy prompt is never shown.
C10_PromptIffAsk ==
  /\ wf.cmd = "gitcc.smartCheckout" /\ StrategyPrompted => DirtyResolution
  /\ DirtyResolution =>
       /\ wf.strategy \in Strategies
       /\ StrategyPrompted <=> wf.strategy = "ask"
       /\ wf.strategy = "autoStash" =>
            LET m == MutatingCommands(BodyCalls)
            IN IF m = <<>> THEN wf.pc = "stash" ELSE m[1] = "stash"
       /\ wf.strategy = "cancel" =>
            /\ wf.pc \in AfterBody
            /\ MutatingCommands(BodyCalls) = <<>>
            /\ ~wf.recorded

\* C10 witness: the three strategies on a dirty tree; here autoStash has stashed and
\* checked out without a prompt for the strategy
C10_Witness ==
  /\ DirtyResolution
  /\ wf.strategy = "autoStash"
  /\ wf.autoStashed
  /\ wf.recorded
  /\ "strategy" \notin PromptKinds
  /\ wf.pc = "end"

\* the git invocations of the handler body that succeeded / failed, by command
OkBody(command) == SelectSeq(BodyCalls, LAMBDA c : c.ok /\ c.argv[1] = command)
FailedBody(command) == SelectSeq(BodyCalls, LAMBDA c : ~c.ok /\ c.argv[1] = command)

\* C11: on a dirty tree, when the resolved action is cancel (configured, chosen, or
\* the prompt dismissed) or the commit flow, the run ends without a stash, a
\* checkout, a branch-memory recording, a restore offer or a stash apply/pop.
C11_CancelOrCommitTouchesNothing ==
  (/\ DirtyResolution
   /\ \/ wf.strategy = "cancel"
      \/ Answered("strategy", {"cancel", "undefined", "commit"})) =>
    /\ MutatingCommands(BodyCalls) = <<>>
    /\ CommandsIssued \cap {"stash", "checkout"} = {}
    /\ ~wf.recorded
    /\ ~wf.autoStashed
    /\ "restore" \notin PromptKinds
    /\ wf.pc \in AfterBody \cup {"commitFlow"}

\* C11 witness: the strategy prompt was dismissed and the run has ended
C11_Witness ==
  /\ DirtyResolution
  /\ Answered("strategy", {"undefined"})
  /\ wf.pc = "end"
  /\ Len(calls) = 1

\* the run took the auto-stash path (configured or chosen)
AutoStashPath ==
  /\ DirtyResolution
  /\ wf.strategy = "autoStash" \/ Answered("strategy", {"auto"})

CleanTree ==
  /\ CheckoutStatusRead
  /\ wf.status.staged + wf.status.unstaged + wf.status.untracked + wf.status.conflicts = 0

\* C13: on a clean tree Smart Checkout goes straight to the checkout of the target:
\* no strategy prompt, no stash, and no restore offer afterwards.
C13_CleanGoesStraightToCheckout ==
  CleanTree =>
    /\ PromptKinds \cap {"strategy", "restore"} = {}
    /\ "stash" \notin CommandsIssued
    /\ ~wf.autoStashed
    /\ LET m == SelectSeq(BodyCalls, IsMutating)
       IN IF m = <<>> THEN wf.pc = "checkout"
          ELSE /\ Len(m) = 1
               /\ m[1].argv = <<"checkout", wf.target>>

\* C13 witness: clean tree, checked out and recorded, the run has ended
C13_Witness ==
  /\ CleanTree
  /\ Len(OkBody("checkout")) = 1
  /\ wf.recorded
  /\ wf.pc = "end"
  /\ prompts = <<>>

\* C14: once the body of a run has ended, a successful checkout has been recorded:
\* the target is the most recent entry of the branch memory; without a successful
\* checkout the run records nothing.
C14_CheckoutIsRecorded ==
  wf.cmd = "gitcc.smartCheckout" =>
    /\ wf.recorded => OkBody("checkout") # <<>>
    /\ (wf.pc \in AfterBody /\ OkBody("checkout") # <<>>) =>
         /\ wf.recorded
         /\ recents # <<>>
         /\ recents[1] = wf.target
         /\ \A i \in 2..Len(recents) : recents[i] # wf.target
    /\ FailedBody("checkout") # <<>> => ~wf.recorded

\* C14 witness: a second run records its target in front of the first run's
C14_Witness ==
  /\ wf.cmd = "gitcc.smartCheckout"
  /\ wf.recorded
  /\ wf.pc = "end"
  /\ Len(recents) = 2
  /\ recents[1] = wf.target

InitWorkflows ==
  /\ InitCache
  /\ InitRefresh
  /\ InitRegistry
  /\ InitParts
  /\ settings \in CheckoutSettings
  /\ \E a, b \in 0..MaxCount, un \in 0..MaxFiles :
       git = [CleanGit EXCEPT !.ahead = a, !.behind = b, !.unstaged = un]
  /\ wf = IdleWf
  /\ calls = <<>>
  /\ prompts = <<>>
  /\ messages = <<>>
  /\ recents = <<>>

\* one run of either workflow; every follow-up command is delegated
NextWorkflows ==
  /\ \/ \E hasRepo \in BOOLEAN : StartSync(hasRepo)
     \/ \E hasRepo \in BOOLEAN, branchArg \in Branches \cup {"undefined"} :
          StartSmartCheckout(hasRepo, branchArg)
     \/ Spawn
     \/ SyncFetch
     \/ SyncStatus
     \/ SyncChoose
     \/ SyncRebase
     \/ SyncMerge
     \/ SyncPull
     \/ SyncRecheck
     \/ SyncPush
     \/ ScPickBranch
     \/ ScStatus
     \/ ScAskStrategy
     \/ ScCommitFlow
     \/ ScStash
     \/ ScCheckout
     \/ ScRecord
     \/ ScOffer
     \/ ScStashApply
     \/ WfRefreshAll
     \/ ShowError
     \/ RecoveryPull
     \/ RecoveryPush
     \/ FollowUpDelegated({})
     \/ ChangeConfiguration(CheckoutSettings)
  /\ UNCHANGED <<cacheVars, refreshVars, registryVars, partVars>>

SpecWorkflows == InitWorkflows /\ [][NextWorkflows]_vars

\* C16: at most one git subprocess of a run is in flight; a command is started only
\* when every earlier command of the run has settled (it is in the log of settled
\* invocations); the status read of Sync is started only after its fetch succeeded.
C16_OneSubprocessAtATime ==
  /\ wf.inflight <= 1
  /\ wf.inflight = IF wf.spawned THEN 1 ELSE 0
  /\ wf.spawned => wf.pc \in GitSteps
  /\ (wf.cmd = "gitcc.sync" /\ wf.pc = "status1") =>
       /\ Len(calls) = 1
       /\ calls[1].ok
       /\ calls[1].argv[1] = "fetch"

\* C16 witness: the status read of Sync is in flight, the fetch has settled
C16_Witness ==
  /\ wf.cmd = "gitcc.sync"
  /\ wf.pc = "status1"
  /\ wf.spawned
  /\ wf.inflight = 1
  /\ Len(calls) = 1

\* positions of withRepo once fn(repo) has thrown
AfterFailure == {"catch", "followUp", "recoveryPull", "recoveryPush", "rejected", "end"}

\* C17: after a failed git command the run issues no further git command, except
\* those of the recovery action 'Pull then Push' once the operator has selected it:
\* no retry, no later step of the workflow; a failed recovery command is the last.
C17_NothingAfterFailure ==
  \A i \in DOMAIN calls :
    ~calls[i].ok =>
      /\ wf.pc \in AfterFailure
      /\ calls[i].phase = "recovery" => i = Len(calls)
      /\ \A j \in (i + 1)..Len(calls) :
           /\ calls[j].phase = "recovery"
           /\ wf.action = "Pull then Push"
           /\ \E k \in DOMAIN messages : "Pull then Push" \in Range(messages[k].actions)

\* C17 witness: the push of Sync was rejected, the operator selected 'Pull then
\* Push', and the pull and the push of the recovery succeeded
C17_Witness ==
  /\ wf.cmd = "gitcc.sync"
  /\ wf.pc = "end"
  /\ wf.action = "Pull then Push"
  /\ \E i \in DOMAIN calls :
       /\ ~calls[i].ok
       /\ calls[i].argv[1] = "push"
       /\ Len(calls) = i + 2
       /\ calls[i + 1].ok /\ calls[i + 1].argv[1] = "pull"
       /\ calls[i + 2].ok /\ calls[i + 2].argv[1] = "push"

\* C18: no failure raised on behalf of a command leaves withRepo unclassified: the
\* handler never rejects.
C18_NoFailureEscapes ==
  wf.pc # "rejected"

\* the workflow each recovery label re-invokes
RecoveryCommand(label) ==
  CASE label = "Set Upstream" -> "gitcc.setUpstream"
    [] label = "Smart Checkout" -> "gitcc.smartCheckout"
    [] label = "Force with Lease" -> "gitcc.forcePushWithLease"
    [] OTHER -> "none"

\* the run after runErrorAction was entered with the operator's selection
RecoveryChosen(w) ==
  /\ w.action # "none"
  /\ w.pc \in {"followUp", "recoveryPull", "recoveryPush", "rejected", "end"}

\* C31: a recovery action runs only if the operator selected it from the failure
\* notification: 'Set Upstream', 'Smart Checkout' and 'Force with Lease' re-invoke
\* their workflow, 'Pull then Push' pulls and pushes only after the pull succeeded;
\* a dismissed notification, or a label outside these four, ends the handler with
\* no git command and no change of state.
C31_RecoveryOnlyIfSelected ==
  [][/\ \A label \in {"undefined", "Retry"} :
          runErrorAction(wf, label) = [wf EXCEPT !.pc = "end", !.action = label]
     /\ (wf.pc = "catch" /\ wf'.pc # "catch") =>
          /\ Len(messages') = Len(messages) + 1
          /\ wf'.action \in Range(messages'[Len(messages')].actions) \cup {"undefined"}
          /\ calls' = calls /\ git' = git /\ recents' = recents /\ settings' = settings
          /\ wf'.action = "undefined" => wf'.pc = "end"
          /\ wf'.action = "Pull then Push" => wf'.pc = "recoveryPull"
          /\ wf'.action \in {"Set Upstream", "Smart Checkout", "Force with Lease"} =>
               /\ wf'.pc = "followUp"
               /\ wf'.followUp = RecoveryCommand(wf'.action)
     /\ (wf.pc = "end" /\ wf.action = "undefined") =>
          UNCHANGED <<wf, git, calls, recents, settings, messages>>
     /\ \A j \in DOMAIN calls' :
          calls'[j].phase = "recovery" =>
            /\ wf'.action = "Pull then Push"
            /\ RecoveryChosen(wf')
            /\ calls'[j].argv[1] \in {"pull", "push"}
            /\ "--force-with-lease" \notin Range(calls'[j].argv)
            /\ calls'[j].argv[1] = "push" =>
                 /\ j > 1
                 /\ calls'[j - 1].phase = "recovery"
                 /\ calls'[j - 1].argv[1] = "pull"
                 /\ calls'[j - 1].ok
     /\ (wf'.pc \in {"recoveryPull", "recoveryPush"}) => wf'.action = "Pull then Push"
    ]_vars

\* C31 witness: a rejected push was shown with its two recovery actions, the
\* operator dismissed the notification, and the handler ended with the rejected
\* push as its last git command
C31_Witness ==
  /\ wf.pc = "end"
  /\ wf.action = "undefined"
  /\ Len(messages) > 0
  /\ messages[Len(messages)].kind = "error"
  /\ messages[Len(messages)].actions = <<"Pull then Push", "Force with Lease">>
  /\ Len(calls) > 0
  /\ ~calls[Len(calls)].ok
  /\ calls[Len(calls)].phase = "body"

(***************************************************************************)
(* The shallow cache under concurrent reads and mutating commands          *)
(***************************************************************************)
NextCache ==
  /\ \/ \E i \in ReadIds, kind \in ReadKinds, root \in Roots : ReadStart(i, kind, root)
     \/ \E i \in ReadIds : QuerySample(i)
     \/ \E i \in ReadIds : ReadFinish(i)
     \/ \E i \in ReadIds : ReadFail(i)
     \/ \E w \in WriteIds, root \in Roots, command \in {"checkout", "fetch"} :
          WriteStart(w, root, command)
     \/ \E w \in WriteIds : WriteEffect(w)
     \/ \E w \in WriteIds : WriteFinish(w)
     \/ \E w \in WriteIds : WriteFail(w)
     \/ Tick
  /\ UNCHANGED <<refreshVars, wfVars, registryVars, partVars>>

SpecCache == InitIdle /\ [][NextCache]_vars

\* C1: a getBranches or getMiniLog read for R that starts after a mutating command
\* on R has completed returns data of a query that ran after the command: the data
\* reflects every mutating command on R that had completed when the read started.
C1_ReadsAfterCommandAreFresh ==
  \A i \in ReadIds :
    reads[i].pc = "done" => reads[i].doneAtStart \subseteq reads[i].value

(***************************************************************************)
(* Refresh passes, command refreshes and change notifications              *)
(***************************************************************************)
NextRefresh ==
  /\ \/ \E p \in PassIds : OrchestratorStart(p)
     \/ \E p \in PassIds : IntervalTick(p)
     \/ TriggerDebounced
     \/ \E p \in PassIds : DebounceFlush(p)
     \/ \E p \in PassIds : PassRegistryDone(p)
     \/ \E p \in PassIds : PassRegistryFail(p)
     \/ \E p \in PassIds, ok \in BOOLEAN : PassViewsDone(p, ok)
     \/ \E c \in CmdIds, force \in BOOLEAN : CommandRefresh(c, force)
     \/ \E c \in CmdIds : SwitchRepository(c)
     \/ \E c \in CmdIds : CmdRegistryDone(c)
     \/ \E c \in CmdIds : CmdRegistryFail(c)
     \/ \E c \in CmdIds, ok \in BOOLEAN : CmdViewsDone(c, ok)
     \/ \E c \in CmdIds, ok \in BOOLEAN : CmdStatusDone(c, ok)
     \/ NotifViewsDone
  /\ UNCHANGED <<cacheVars, wfVars, registryVars, partVars>>

SpecRefresh == InitIdle /\ [][NextRefresh]_vars

\* C2: a refresh pass of the orchestrator never begins while a previous pass is in
\* flight: at most one pass is in flight at any time.
C2_NoOverlappingPasses ==
  Cardinality({p \in PassIds : PassInFlight(p)}) <= 1

\* C3: no view refresh (of a pass, of a command's refreshAll, or of a change
\* notification) runs while a registry refresh is in flight.
C3_NoViewRefreshDuringRegistryRefresh ==
  ~(RegistryInFlight /\ ViewInFlight)

(***************************************************************************)
(* The registry under refreshes and workflow commands                      *)
(***************************************************************************)
NextRegistry ==
  /\ \/ \E force \in BOOLEAN : RegRefreshStart(force)
     \/ \E root \in Roots : CommandThenRefresh(root)
     \/ \E found \in FoundLists : RegDetected(found)
     \/ RegLoop
     \/ RegSample
     \/ RegInfoDone
     \/ RegInfoFail
     \/ RegPublish
     \/ RegReturn
     \/ RegTick
  /\ UNCHANGED <<cacheVars, refreshVars, wfVars, partVars>>

SpecRegistry == InitIdle /\ [][NextRegistry]_vars

\* C19: the registry refresh that follows a workflow's mutating command on R
\* publishes for R a RepositoryInfo computed after the command: the published
\* snapshot reflects every command that had completed when the refresh started.
C19_RefreshAfterCommandIsFresh ==
  (regRun.pc = "done" /\ regRun.afterCommand) =>
    \A root \in Roots :
      regRun.next[root] # -1 => regRun.next[root] >= regRun.seen[root]

NextActive ==
  /\ \/ \E force \in BOOLEAN : RegRefreshStart(force)
     \/ \E found \in FoundLists : RegDetected(found)
     \/ RegLoop
     \/ RegSample
     \/ RegInfoDone
     \/ RegInfoFail
     \/ RegPublish
     \/ RegReturn
     \/ \E root \in Roots : SwitchActiveRepository(root)
     \/ \E targetPath \in EditorPaths : EditorChanged(targetPath)
  /\ UNCHANGED <<cacheVars, refreshVars, wfVars, partVars>>

SpecActive == InitIdle /\ [][NextActive]_vars

\* C21: when refreshRepositories completes, the active id is unchanged if it is
\* the id of a member of the new collection, otherwise it is the id of the first
\* repository of the new collection, and it is undefined when the collection is empty.
C21_ActiveIdAfterRefresh ==
  regLastOp.op = "refreshRepositories" =>
    LET ids == {UriString(regLastOp.known[i]) : i \in DOMAIN regLastOp.known}
    IN /\ regLastOp.known = <<>> => regLastOp.after = NoId
       /\ regLastOp.before \in ids => regLastOp.after = regLastOp.before
       /\ (regLastOp.known # <<>> /\ regLastOp.before \notin ids) =>
            regLastOp.after = UriString(regLastOp.known[1])
       /\ regLastOp.known # <<>> => regLastOp.after \in ids

\* C21 witness: a refresh replaced the collection by a non-empty one that no longer
\* holds the previously active repository, and the first repository became active
C21_Witness ==
  /\ regLastOp.op = "refreshRepositories"
  /\ regLastOp.before # NoId
  /\ regLastOp.known # <<>>
  /\ \A i \in DOMAIN regLastOp.known : UriString(regLastOp.known[i]) # regLastOp.before
  /\ regLastOp.after = UriString(regLastOp.known[1])

\* C23: every registry operation that changes the active repository id or replaces
\* the collection fires the change event before it returns.
C23_MutationsAreNotified ==
  /\ regLastOp.op = "refreshRepositories" => regLastOp.fired
  /\ regLastOp.before # regLastOp.after => regLastOp.fired
  /\ regLastOp.op = "setActiveRepository" => regLastOp.fired

\* C23 witness: setActiveRepositoryForUri switched the active repository and fired
C23_Witness ==
  /\ regLastOp.op = "setActiveRepositoryForUri"
  /\ regLastOp.before # regLastOp.after
  /\ regLastOp.before # NoId
  /\ regLastOp.fired

(***************************************************************************)
(* setActiveRepositoryForUri on every collection, active id and path       *)
(***************************************************************************)
InitSelectInputs ==
  /\ InitCache
  /\ InitRefresh
  /\ InitRegistry
  /\ InitWorkflowIdle
  /\ InitSelect
  /\ InitDebounce
  /\ InitStore
  /\ failure = IdleFailure
  /\ InitLate

NextSelect ==
  /\ \E targetPath \in SelPaths : SelectForUri(targetPath)
  /\ UNCHANGED <<cacheVars, refreshVars, wfVars, registryVars, debounceVars, storeVars, errVars, lateVars>>

SpecSelect == InitSelectInputs /\ [][NextSelect]_vars

\* C22: setActiveRepositoryForUri(path) selects, among the known repositories whose
\* root is the path or a directory above it, the one with the longest root; it makes
\* it active, fires and returns true iff it is not the active one already; otherwise
\* the active id is unchanged, nothing fires and it returns false.
C22_SelectsLongestCoveringRoot ==
  sel.call # NoCall =>
    LET covering == {i \in DOMAIN sel.known : Covers(sel.known[i], sel.call.path)}
        longest == CHOOSE i \in covering :
                     \A j \in covering : Len(sel.known[i]) >= Len(sel.known[j])
    IN IF covering = {} \/ UriString(sel.known[longest]) = sel.call.before
       THEN sel.active = sel.call.before /\ ~sel.call.fired /\ ~sel.call.result
       ELSE sel.active = UriString(sel.known[longest]) /\ sel.call.fired /\ sel.call.result

(***************************************************************************)
(* The Debouncer under triggers from every source                          *)
(***************************************************************************)
\* the orchestrator after start(), its first pass settled
InitStarted ==
  /\ InitCache
  /\ passes = [p \in PassIds |-> IdlePass]
  /\ cmdRefresh = [c \in CmdIds |-> IdleCmd]
  /\ notifViews = 0
  /\ debounceTimer = FALSE
  /\ started = TRUE
  /\ InitRegistry
  /\ InitParts
  /\ InitWorkflowIdle

NextDebounce ==
  /\ \/ \E source \in DebouncedSources \cup ExternalSignals : TimedTrigger(source)
     \/ \E p \in PassIds : TimedFlush(p)
     \/ DebounceTick
  /\ UNCHANGED <<cacheVars, wfVars, registryVars, selVars, storeVars, errVars, lateVars>>

SpecDebounce == InitStarted /\ [][NextDebounce]_vars

\* C24: a burst of debounced triggers starts exactly one refresh pass, 400 ms after
\* its last trigger; no pass starts while the triggers of a burst keep arriving.
C24_OnePassPerBurst ==
  /\ \A i \in DOMAIN dbStarts : dbStarts[i].at = dbStarts[i].last + 400
  /\ \A i, j \in DOMAIN dbStarts : i < j => dbStarts[i].at <= dbStarts[j].first
  /\ dbDue # -1 =>
       /\ dbDue = dbLast.at + 400
       /\ dbNow <= dbDue
       /\ \A i \in DOMAIN dbStarts : dbStarts[i].at <= dbLast.first
  /\ Cardinality({p \in PassIds : passes[p].trigger = "debounce"}) = Len(dbStarts)
  /\ debounceTimer <=> dbDue # -1

\* C24 witness: a burst of two triggers 200 ms apart started one pass, and a later
\* burst started the second pass
C24_Witness ==
  /\ Len(dbStarts) = 2
  /\ dbStarts[1].burst = 2
  /\ dbStarts[1].last > dbStarts[1].first
  /\ dbStarts[1].source \in DebouncedSources

\* C25: a repository-opened or repository-closed signal starts a refresh pass at
\* once: when the signal has been handled, a pass started by it at that time exists.
C25_ExternalSignalStartsPassAtOnce ==
  dbLast.source \in ExternalSignals =>
    \E i \in DOMAIN dbStarts :
      dbStarts[i].source = dbLast.source /\ dbStarts[i].at = dbLast.at

(***************************************************************************)
(* StateStore under set, invalidate, isFresh and the passing of time       *)
(***************************************************************************)
NextStore ==
  /\ \/ \E key \in StoreKeys : StoreSet(key, 1)
     \/ \E arg \in {NoKey} \cup {GivenKey(key) : key \in StoreKeys} : StoreInvalidate(arg)
     \/ \E key \in StoreKeys, maxAgeMs \in MaxAges : StoreIsFresh(key, maxAgeMs)
     \/ StoreTick
  /\ UNCHANGED <<cacheVars, refreshVars, wfVars, registryVars, selVars, debounceVars, errVars, lateVars>>

SpecStore == InitIdle /\ [][NextStore]_vars

\* C26: isFresh(key, maxAgeMs) returns true iff an entry of key exists and
\* now - timestamp <= maxAgeMs; it leaves the store as it was, and a second call with
\* the same arguments at the same clock value returns the same boolean.
C26_IsFreshIsExactAndPure ==
  storeOp.op = "isFresh" =>
    LET entry == storeOp.before[storeOp.arg.key]
    IN /\ storeOp.result <=> (entry # NoEntry /\ storeOp.at - entry.timestamp <= storeOp.maxAgeMs)
       /\ store = storeOp.before
       /\ storeOp.repeated => storeOp.result = storeOp.previous

\* C26 witness: an entry exactly maxAgeMs old is probed twice in succession and is
\* fresh both times
C26_Witness ==
  /\ storeOp.op = "isFresh"
  /\ storeOp.repeated
  /\ storeOp.result
  /\ storeOp.maxAgeMs = 3000
  /\ storeOp.at - storeOp.before[storeOp.arg.key].timestamp = 3000

\* C27: invalidate(key) removes exactly the entry of key, for every string key, and
\* leaves every other entry as it was; invalidate() removes every entry.
C27_InvalidateRemovesExactlyTheKey ==
  storeOp.op = "invalidate" =>
    IF storeOp.arg.given
    THEN store = [storeOp.before EXCEPT ![storeOp.arg.key] = NoEntry]
    ELSE store = [key \in StoreKeys |-> NoEntry]

\* C28: the invalidation of a mutating command run in R removes every cached
\* branch-list and log-slice entry of R and no entry of another root.
C28_InvalidationStaysInItsRoot ==
  [][\A w \in WriteIds :
       (writes[w].pc = "idle" /\ writes'[w].pc = "running") =>
         \A kind \in ReadKinds, root \in Roots :
           IF root = writes'[w].root
           THEN gitCache'[KeyOf(kind, root)] = Absent
           ELSE gitCache'[KeyOf(kind, root)] = gitCache[KeyOf(kind, root)]]_vars

(***************************************************************************)
(* ErrorReporter.suggestAction on every failure text                       *)
(***************************************************************************)
InitClassifyInputs ==
  /\ InitCache
  /\ InitRefresh
  /\ InitRegistry
  /\ InitWorkflowIdle
  /\ sel = IdleSel
  /\ InitDebounce
  /\ InitStore
  /\ InitFailure
  /\ InitLate

\* ErrorReporter.show: suggestAction(normalized.message, normalized.stderr)
ClassifyFailure ==
  /\ failure.out = NotClassified
  /\ failure' = [failure EXCEPT !.out =
       suggestAction(failure.message, signaturesIn(sourceOf(failure.message, failure.stderr)))]

NextClassify ==
  /\ ClassifyFailure
  /\ UNCHANGED <<cacheVars, refreshVars, wfVars, registryVars, selVars, debounceVars, storeVars, lateVars>>

SpecClassify == InitClassifyInputs /\ [][NextClassify]_vars

\* the ways a word of a signature is written
Spellings(word) ==
  CASE word = "pathspec" -> {"pathspec", "Pathspec"}
    [] word = "non-fast-forward" -> {"non-fast-forward", "NON-FAST-FORWARD"}
    [] OTHER -> {word}

\* the text contains the signature, in any letter case
Mentions(text, signature) ==
  LET words == WordsOf(signature)
  IN \E i \in 1..(Len(text) - Len(words) + 1) :
       \A k \in DOMAIN words : text[i + k - 1] \in Spellings(words[k])

\* the signatures that the message or the stderr of the failure contains
Mentioned ==
  {SignatureTable[i] : i \in {j \in DOMAIN SignatureTable :
      Mentions(failure.message, SignatureTable[j]) \/ Mentions(failure.stderr, SignatureTable[j])}}

\* the row of the table a signature belongs to
Row(signature) ==
  IF signature = "could not read from remote repository" THEN "authentication failed"
  ELSE signature

ExpectedActions(signature) ==
  CASE signature = "no upstream configured" -> <<"Set Upstream">>
    [] signature = "would be overwritten by checkout" -> <<"Smart Checkout">>
    [] signature = "non-fast-forward" -> <<"Pull then Push", "Force with Lease">>
    [] OTHER -> <<>>

\* C29: a failure text with exactly one known signature is mapped to the fixed
\* result of that signature; a text with no known signature passes the original
\* message through with no actions.
C29_OneSignatureFixedResult ==
  failure.out # NotClassified =>
    /\ Mentioned = {} => failure.out = [message |-> failure.message, actions |-> <<>>]
    /\ Cardinality({Row(sig) : sig \in Mentioned}) = 1 =>
         \A sig \in Mentioned :
           /\ failure.out.actions = ExpectedActions(sig)
           /\ failure.out.message # failure.message

\* C29 witness: stderr alone holds 'non-fast-forward' and the two actions are offered
\* in their order
C29_Witness ==
  /\ failure.out # NotClassified
  /\ Mentioned = {"non-fast-forward"}
  /\ ~Mentions(failure.message, "non-fast-forward")
  /\ failure.out.actions = <<"Pull then Push", "Force with Lease">>

\* C30: classification is first-match-wins in the order of the table: a text with
\* several signatures gets the result of the earliest one, whatever the letter case
\* and whether the signature is in the message or in stderr.
C30_FirstMatchWins ==
  (failure.out # NotClassified /\ Mentioned # {}) =>
    LET first == CHOOSE i \in DOMAIN SignatureTable :
                   /\ SignatureTable[i] \in Mentioned
                   /\ \A j \in DOMAIN SignatureTable : SignatureTable[j] \in Mentioned => i <= j
    IN failure.out = suggestAction(failure.message, {SignatureTable[first]})

\* C30 witness: 'Pathspec' in stderr, in another letter case, wins over
\* 'non-fast-forward' in the message
C30_Witness ==
  /\ failure.out # NotClassified
  /\ failure.message = <<"non-fast-forward">>
  /\ Mentions(failure.stderr, "pathspec")
  /\ "pathspec" \notin Range(failure.stderr)
  /\ failure.out.actions = <<>>
  /\ Cardinality(Mentioned) = 2

(***************************************************************************)
(* The parsers as functions of the output of git                           *)
(***************************************************************************)
InitParseInputs ==
  /\ InitCache
  /\ InitRefresh
  /\ InitRegistry
  /\ InitWorkflowIdle
  /\ sel = IdleSel
  /\ InitDebounce
  /\ InitStore
  /\ failure = IdleFailure
  /\ InitParse
  /\ others = 0
  /\ ov = IdleOverlap
  /\ inv = IdleInvoke
  /\ mem = IdleMemory

NextParse ==
  /\ \/ ParseStatus
     \/ ParseWorktrees
     \/ ParseBranchRefs
  /\ UNCHANGED <<cacheVars, refreshVars, wfVars, registryVars, selVars, debounceVars, storeVars,
                 errVars, otherVars, overlapVars, invokeVars, memoryVars>>

SpecParse == InitParseInputs /\ [][NextParse]_vars

\* the file records of a status output: the lines of type 1, 2, u and ?
FileLines(input) == {i \in DOMAIN input : input[i] # <<>> /\ input[i][1] \in {"1", "2", "u", "?"}}

\* the entries of a section that belong to the record on line i
InSection(section, input, i) ==
  {k \in DOMAIN section : section[k].path[Len(section[k].path)] = input[i][Len(input[i])]}

\* a status pair that marks a conflict
ConflictPair(xy) == xy[1] = "U" \/ xy[2] = "U" \/ xy = <<"A", "A">> \/ xy = <<"D", "D">>

\* C32: every file record with pair XY is placed in the conflict set only when X or
\* Y is 'U' or XY is 'AA' or 'DD'; otherwise in staged iff X is not '.', and in
\* unstaged iff Y is not '.' (in both when both sides are set, so the two lengths
\* count such a file twice); an untracked record is placed in untracked only.
C32_StatusSections ==
  (parse.fn = "parseStatusPorcelainV2" /\ parse.done) =>
    LET input == parse.input
        out == parse.out[1]
        Count(section, i) == Cardinality(InSection(section, input, i))
        Changed == {i \in FileLines(input) : input[i][1] # "?" /\ ~ConflictPair(input[i][2])}
    IN /\ \A i \in FileLines(input) :
            IF input[i][1] = "?"
              THEN /\ Count(out.untracked, i) = 1
                   /\ Count(out.staged, i) + Count(out.unstaged, i) + Count(out.conflicts, i) = 0
            ELSE IF ConflictPair(input[i][2])
              THEN /\ Count(out.conflicts, i) = 1
                   /\ Count(out.staged, i) + Count(out.unstaged, i) + Count(out.untracked, i) = 0
            ELSE /\ Count(out.staged, i) = (IF input[i][2][1] # "." THEN 1 ELSE 0)
                 /\ Count(out.unstaged, i) = (IF input[i][2][2] # "." THEN 1 ELSE 0)
                 /\ Count(out.conflicts, i) + Count(out.untracked, i) = 0
       /\ Len(out.staged) + Len(out.unstaged) =
            Cardinality({i \in Changed : input[i][2][1] # "."})
            + Cardinality({i \in Changed : input[i][2][2] # "."})
       /\ Len(out.untracked) = Cardinality({i \in FileLines(input) : input[i][1] = "?"})

\* C32 witness: a file changed on both sides is in staged and in unstaged, next to
\* an add/add pair that is in conflicts only
C32_Witness ==
  /\ parse.fn = "parseStatusPorcelainV2"
  /\ parse.done
  /\ Len(parse.out[1].staged) = 1 /\ Len(parse.out[1].unstaged) = 1
  /\ parse.out[1].staged[1].path = parse.out[1].unstaged[1].path
  /\ Len(parse.out[1].conflicts) = 1
  /\ parse.out[1].conflicts[1].x = "A" /\ parse.out[1].conflicts[1].y = "A"

\* the blank-line-delimited blocks of an output
RECURSIVE BlocksOf(_, _)
BlocksOf(lines, block) ==
  IF lines = <<>> THEN (IF block = <<>> THEN <<>> ELSE <<block>>)
  ELSE IF Head(lines) = <<>> THEN <<block>> \o BlocksOf(Tail(lines), <<>>)
  ELSE BlocksOf(Tail(lines), Append(block, Head(lines)))

\* the value of the last line of a block that starts with a keyword
ValueIn(block, keyword) ==
  LET hits == {k \in DOMAIN block : block[k][1] = keyword /\ Len(block[k]) > 1}
  IN IF hits = {} THEN None
     ELSE Some(Tail(block[CHOOSE k \in hits : \A j \in hits : j <= k]))

\* the record of a block, from the lines of that block alone
RecordOfBlock(block) ==
  [path |-> ValueIn(block, "worktree"),
   head |-> ValueIn(block, "HEAD"),
   branch |-> IF ValueIn(block, "branch") = None THEN None
              ELSE Some(Tail(ValueIn(block, "branch")[1])),
   detached |-> \E k \in DOMAIN block : block[k] = <<"detached">>,
   bare |-> \E k \in DOMAIN block : block[k] = <<"bare">>,
   prunable |-> ValueIn(block, "prunable")]

\* C33: parseWorktrees emits one record for each blank-line-delimited block that has
\* both a worktree line and a HEAD line, none for a block missing either, and every
\* value of a record comes from the lines of its own block.
C33_OneRecordPerCompleteBlock ==
  (parse.fn = "parseWorktrees" /\ parse.done) =>
    LET blocks == BlocksOf(parse.input, <<>>)
        complete == SelectSeq(blocks, LAMBDA b : ValueIn(b, "worktree") # None
                                                 /\ ValueIn(b, "HEAD") # None)
    IN parse.out[1] = [k \in DOMAIN complete |-> RecordOfBlock(complete[k])]

\* the rows of an output that carry a ref name
NamedRows(input) == SelectSeq(input, LAMBDA row : row # <<>> /\ row[1] # <<>>)

\* C34: every row with a ref name yields one record, in order: remote iff the ref is
\* under refs/remotes/, local otherwise; upstream undefined when the field is '-' or
\* empty; stale only for a local branch without upstream; merged only with ahead = 0,
\* behind = 0 and an upstream; isCurrent only for a local ref whose short name is
\* the current branch; rows without a ref name are skipped.
C34_BranchRows ==
  (parse.fn = "parseBranchRefs" /\ parse.done) =>
    LET rows == NamedRows(parse.input)
    IN /\ Len(parse.out[1]) = Len(rows)
       /\ \A k \in DOMAIN rows :
            LET row == rows[k]
                b == parse.out[1][k]
                up == IF Len(row) >= 2 THEN row[2] ELSE <<>>
            IN /\ b.name = row[1]
               /\ b.kind = (IF SubSeq(row[1], 1, 1) = <<"refs/remotes/">> THEN "remote" ELSE "local")
               /\ (up = <<"-">> \/ up = <<>>) => b.upstream = None
               /\ ~(up = <<"-">> \/ up = <<>>) => b.upstream = Some(up)
               /\ b.stale => (b.kind = "local" /\ b.upstream = None)
               /\ b.merged => (b.ahead = 0 /\ b.behind = 0 /\ b.upstream # None)
               /\ b.isCurrent => (b.kind = "local" /\ Some(b.shortName) = parse.current)
               /\ (b.kind = "local" /\ b.upstream = None) => b.stale

\* C34 witness: the current local branch with the placeholder upstream is stale and
\* not merged, after a row without a ref name and before a remote ref
C34_Witness ==
  /\ parse.fn = "parseBranchRefs"
  /\ parse.done
  /\ Len(parse.input) = 2
  /\ parse.input[1][1] = <<>>
  /\ Len(parse.input[2]) >= 2
  /\ parse.input[2][2] = <<"-">>
  /\ Len(parse.out[1]) = 1
  /\ parse.out[1][1].isCurrent /\ parse.out[1][1].stale /\ ~parse.out[1][1].merged

(***************************************************************************)
(* Smart Checkout next to other stash commands of the operator             *)
(***************************************************************************)
\* the operator edits a tracked file while the restore offer is shown
OperatorEdits ==
  /\ wf.pc = "offer"
  /\ git.unstaged < MaxFiles
  /\ git' = [git EXCEPT !.unstaged = @ + 1]
  /\ UNCHANGED <<settings, wf, calls, prompts, messages, recents, others>>

\* gitcc.stash (part_000 lines 713-718), run by the operator while the restore
\* offer of Smart Checkout is shown: a run of its own, on the same repository
OtherStash ==
  /\ wf.pc = "offer"
  /\ others < MaxCommands
  /\ others' = others + 1
  /\ git' = stashPush(git, "gitcc.stash")
  /\ UNCHANGED <<settings, wf, calls, prompts, messages, recents>>

\* gitcc.stashDrop (part_000 lines 762-774) of the entry the operator picked and
\* confirmed, while the restore offer is shown
OtherStashDrop ==
  /\ wf.pc = "offer"
  /\ others < MaxCommands
  /\ \E k \in DOMAIN git.stashes :
       git' = [git EXCEPT !.stashes = SubSeq(@, 1, k - 1) \o SubSeq(@, k + 1, Len(@))]
  /\ others' = others + 1
  /\ UNCHANGED <<settings, wf, calls, prompts, messages, recents>>

\* a repository with at most MaxFiles changed or untracked files and at most one
\* earlier stash entry; Smart Checkout stashes without asking
InitStash ==
  /\ InitCache
  /\ InitRefresh
  /\ InitRegistry
  /\ InitParts
  /\ settings \in {st \in CheckoutSettings : st.smartCheckoutDefaultStrategy = "autoStash"}
  /\ \E st, un, ut \in 0..MaxFiles, old \in {<<>>, <<StashEntry("earlier", 0, 1)>>} :
       /\ st + un + ut <= MaxFiles
       /\ git = [CleanGit EXCEPT !.staged = st, !.unstaged = un, !.untracked = ut,
                                 !.stashes = old]
  /\ wf = IdleWf
  /\ calls = <<>>
  /\ prompts = <<>>
  /\ messages = <<>>
  /\ recents = <<>>

NextStash ==
  /\ \/ /\ \/ \E branchArg \in Branches : StartSmartCheckout(TRUE, branchArg)
           \/ Spawn
           \/ ScStatus
           \/ ScStash
           \/ ScCheckout
           \/ ScRecord
           \/ ScOffer
           \/ ScStashApply
           \/ WfRefreshAll
           \/ ShowError
           \/ RecoveryPull
           \/ RecoveryPush
           \/ FollowUpDelegated({})
        /\ UNCHANGED others
     \/ OperatorEdits
     \/ OtherStash
     \/ OtherStashDrop
  /\ UNCHANGED <<cacheVars, refreshVars, registryVars, selVars, debounceVars, storeVars, errVars,
                 parseVars, overlapVars, invokeVars, memoryVars>>

SpecStash == InitStash /\ [][NextStash]_vars

\* C35: the stash that Smart Checkout applies or pops after an auto-stash is the
\* entry its own run created, also next to other stash commands on the repository
\* and also when only untracked files made the tree dirty.
C35_RestoresOwnStash ==
  (wf.cmd = "gitcc.smartCheckout" /\ git.restored # <<>>) => git.restored[1].by = "auto"

(***************************************************************************)
(* Overlapping registry refreshes                                          *)
(***************************************************************************)
NextOverlap ==
  /\ \/ \E r \in RefreshIds, force \in BOOLEAN : OvStart(r, force)
     \/ \E r \in RefreshIds, fresh \in BOOLEAN : OvLoop(r, fresh)
     \/ \E r \in RefreshIds : OvSample(r)
     \/ \E r \in RefreshIds : OvInfoDone(r)
     \/ \E r \in RefreshIds : OvInfoFail(r)
     \/ OvCommand
  /\ UNCHANGED <<cacheVars, refreshVars, wfVars, registryVars, selVars, debounceVars, storeVars,
                 errVars, parseVars, otherVars, invokeVars, memoryVars>>

SpecOverlap == InitIdle /\ [][NextOverlap]_vars

\* C36: once overlapping refreshes have completed, the published collection is the
\* result of the refresh that started last: a result read earlier never replaces a
\* result read later.
C36_LastStartedWins ==
  LET published == {r \in RefreshIds : ov.calls[r].pc = "done"}
  IN (published # {} /\ \A r \in RefreshIds : ov.calls[r].pc \in {"idle", "done", "rejected"}) =>
       /\ \A r \in published :
            (\A q \in published : ov.calls[q].seq <= ov.calls[r].seq) =>
              ov.published = ov.calls[r].next
       /\ \A r \in published : ov.calls[r].next <= ov.published

(***************************************************************************)
(* Command handlers, the repository they run in and the commands they      *)
(* re-invoke (part_000: withRepo, runErrorAction, executeCommand)          *)
(***************************************************************************)
InvokedCommands == {"gitcc.push", "gitcc.forcePushWithLease", "gitcc.commitNow", "gitcc.sync"}
PostCommitActions == {"none", "push", "sync"}
FollowUpCommands == {"gitcc.setUpstream", "gitcc.smartCheckout", "gitcc.forcePushWithLease"}

CommitArgs == <<"commit", "-m">>
SetUpstreamArgs == <<"branch", "--set-upstream-to">>
InvokeRemote == "origin"

\* the git commands a handler body issues, in order, on its longest path (a body that
\* returns earlier issues a prefix of them; sync without the pull, rebase or merge
\* issues the others); commitNow: up to the commit, forcePushWithLease: after the
\* confirmation
BodyPaths(cmd) ==
  CASE cmd = "gitcc.push" -> {<<PushArgs(InvokeRemote, FALSE)>>}
    [] cmd = "gitcc.forcePushWithLease" -> {<<PushArgs(InvokeRemote, TRUE)>>}
    [] cmd = "gitcc.commitNow" -> {<<StatusArgs, CommitArgs>>}
    [] cmd = "gitcc.sync" ->
         {<<FetchArgs(InvokeRemote), StatusArgs, PullArgs(FALSE, InvokeRemote), StatusArgs,
            PushArgs(InvokeRemote, FALSE)>>}
    [] cmd = "gitcc.setUpstream" -> {<<ForEachRefArgs, SetUpstreamArgs>>}
    [] cmd = "gitcc.smartCheckout" -> {<<StatusArgs, CheckoutArgs("feature/x")>>}
    [] OTHER -> {<<>>}

\* mutant: a dismissed confirmation goes on to the push
AfterForceConfirm_DismissPushes(choice) == "body"

\* gitcc.forcePushWithLease lines 218-220: if (choice !== 'Force Push') return
AfterForceConfirm(choice) == IF choice # "Force Push" THEN "refresh" ELSE "body"

\* withRepo line 50: const repo = deps.repositoryManager.getActiveRepository()
repoOf(stack, active) == active

NoFrame ==
  [cmd |-> "none", id |-> 0, repo |-> NoId, pc |-> "end", path |-> <<>>, at |-> 1,
   post |-> "none", answer |-> "none", action |-> "none", followUp |-> "none"]

Top == inv.stack[Len(inv.stack)]
WithTop(frame) == [inv.stack EXCEPT ![Len(inv.stack)] = frame]

\* what the handlers did so far: a git command (the handler that issued it, the part
\* of withRepo it was issued in, the directory it ran in, the answer its handler got
\* to the confirmation), a prompt, a warning
GitEntry(frame, argv, phase) ==
  [kind |-> "git", cmd |-> frame.cmd, cwd |-> frame.repo, argv |-> argv, phase |-> phase,
   answer |-> frame.answer]
PromptEntry(frame, answer) ==
  [kind |-> "prompt", cmd |-> frame.cmd, cwd |-> frame.repo, argv |-> <<>>, phase |-> "body",
   answer |-> answer]
WarningEntry(cmd) ==
  [kind |-> "warning", cmd |-> cmd, cwd |-> NoId, argv |-> <<>>, phase |-> "body",
   answer |-> "none"]

\* withRepo lines 50-57 of the handler of cmd, called by the operator (empty stack) or
\* through executeCommand by the handler on top of the stack
enter(cmd, post, path) ==
  LET repo == repoOf(inv.stack, inv.active)
      first == IF cmd = "gitcc.forcePushWithLease" /\ inv.confirmForcePush
               THEN "confirm" ELSE "body"
      frame == [NoFrame EXCEPT !.cmd = cmd, !.id = inv.frames + 1, !.repo = repo,
                               !.pc = first, !.path = path, !.post = post]
  IN IF repo = NoId
     THEN [inv EXCEPT !.stack = Append(@, [NoFrame EXCEPT !.cmd = cmd, !.id = inv.frames + 1]),
                      !.frames = @ + 1,
                      !.log = @ \cup {WarningEntry(cmd)}]
     ELSE [inv EXCEPT !.stack = Append(@, frame), !.frames = @ + 1]

\* the operator runs a command from the palette, a view or the commit form
Invoke(cmd, post, path) ==
  /\ inv.stack = <<>>
  /\ inv.frames = 0
  /\ path \in BodyPaths(cmd)
  /\ post = "none" \/ (cmd = "gitcc.commitNow" /\ path # <<>> /\ path[Len(path)] = CommitArgs)
  /\ inv' = [enter(cmd, post, path) EXCEPT !.start = inv.active]

\* gitcc.forcePushWithLease lines 213-221: the modal confirmation
ForceConfirm(choice) ==
  /\ inv.stack # <<>>
  /\ Top.pc = "confirm"
  /\ inv' = [inv EXCEPT !.stack = WithTop([Top EXCEPT !.pc = AfterForceConfirm(choice),
                                                      !.answer = choice]),
                        !.log = @ \cup {PromptEntry(Top, choice)}]

\* the next git command of the body exits 0
BodyStep ==
  /\ inv.stack # <<>>
  /\ Top.pc = "body"
  /\ Top.at <= Len(Top.path)
  /\ inv' = [inv EXCEPT !.stack = WithTop([Top EXCEPT !.at = @ + 1]),
                        !.log = @ \cup {GitEntry(Top, Top.path[Top.at], "body")}]

\* the next git command of the body fails: the catch block of withRepo
BodyFail ==
  /\ inv.stack # <<>>
  /\ Top.pc = "body"
  /\ Top.at <= Len(Top.path)
  /\ inv' = [inv EXCEPT !.stack = WithTop([Top EXCEPT !.pc = "catch"]),
                        !.log = @ \cup {GitEntry(Top, Top.path[Top.at], "body")}]

\* the body has issued its commands; gitcc.commitNow lines 247-252: the post-commit
\* action; then refreshAll
BodyEnd ==
  /\ inv.stack # <<>>
  /\ Top.pc = "body"
  /\ Top.at > Len(Top.path)
  /\ inv' = [inv EXCEPT !.stack = WithTop([Top EXCEPT !.pc =
               IF Top.post = "push" THEN "postPush"
               ELSE IF Top.post = "sync" THEN "postSync" ELSE "refresh"])]

\* gitcc.commitNow line 249: gitService.push(repo.rootUri, defaultRemote)
PostCommitPush(ok) ==
  /\ inv.stack # <<>>
  /\ Top.pc = "postPush"
  /\ inv' = [inv EXCEPT !.stack = WithTop([Top EXCEPT !.pc = IF ok THEN "refresh" ELSE "catch"]),
                        !.log = @ \cup {GitEntry(Top, PushArgs(InvokeRemote, FALSE), "post")}]

\* gitcc.commitNow line 251: executeCommand('gitcc.sync'), awaited
PostCommitSync(path) ==
  /\ inv.stack # <<>>
  /\ Top.pc = "postSync"
  /\ inv.frames <= MaxDepth
  /\ path \in BodyPaths("gitcc.sync")
  /\ inv' = [enter("gitcc.sync", "none", path)
               EXCEPT !.stack[Len(inv.stack)].pc = "awaitBody"]

\* withRepo line 58: refreshAll; its failure goes to the catch block
InvokeRefresh(ok) ==
  /\ inv.stack # <<>>
  /\ Top.pc = "refresh"
  /\ inv' = [inv EXCEPT !.stack = WithTop([Top EXCEPT !.pc = IF ok THEN "end" ELSE "catch"])]

\* withRepo lines 60-61: the failure is shown, the operator selects a recovery action or
\* dismisses; runErrorAction up to its first await
InvokeCatch ==
  /\ inv.stack # <<>>
  /\ Top.pc = "catch"
  /\ \E err \in GitFailures :
       \E selected \in Range(suggestAction(err.message, err.sigs).actions) \cup {"undefined"} :
         inv' = [inv EXCEPT !.stack = WithTop(runErrorAction(Top, selected))]

\* runErrorAction lines 878-893: executeCommand of the command of the action, awaited
InvokeFollowUp(path) ==
  /\ inv.stack # <<>>
  /\ Top.pc = "followUp"
  /\ inv.frames <= MaxDepth
  /\ path \in BodyPaths(Top.followUp)
  /\ inv' = [enter(Top.followUp, "none", path)
               EXCEPT !.stack[Len(inv.stack)].pc = "awaitFollowUp"]

\* runErrorAction lines 886-888: pull and push on repoUri, outside any try block
InvokeRecovery(pullOk, pushOk) ==
  /\ inv.stack # <<>>
  /\ Top.pc = "recoveryPull"
  /\ inv' = [inv EXCEPT
       !.stack = WithTop([Top EXCEPT !.pc = IF pullOk /\ pushOk THEN "end" ELSE "rejected"]),
       !.log = @ \cup {GitEntry(Top, PullArgs(FALSE, InvokeRemote), "recovery")}
                 \cup (IF pullOk THEN {GitEntry(Top, PushArgs(InvokeRemote, FALSE), "recovery")}
                       ELSE {})]

\* the handler on top of the stack returns or rejects: the executeCommand its caller
\* awaits settles (a rejection inside the caller's body reaches the caller's catch block)
InvokeReturn ==
  /\ inv.stack # <<>>
  /\ Top.pc \in {"end", "rejected"}
  /\ LET rest == SubSeq(inv.stack, 1, Len(inv.stack) - 1)
         caller == rest[Len(rest)]
         resumed == IF caller.pc = "awaitBody"
                    THEN IF Top.pc = "end" THEN "refresh" ELSE "catch"
                    ELSE Top.pc
     IN inv' = [inv EXCEPT !.stack =
                  IF rest = <<>> THEN rest
                  ELSE [rest EXCEPT ![Len(rest)] = [caller EXCEPT !.pc = resumed]]]

\* the active repository changes: another editor gets the focus (part_008 lines 89-100),
\* gitcc.switchRepository, or a registry refresh that no longer lists it (taken where
\* a handler is about to read it: elsewhere the change is not observed before then)
SwitchActive(root) ==
  /\ inv.stack # <<>>
  /\ Top.pc \in {"followUp", "postSync"}
  /\ root # inv.active
  /\ inv' = [inv EXCEPT !.active = root]

InitInvoke ==
  /\ InitCache
  /\ InitRefresh
  /\ InitRegistry
  /\ InitWorkflowIdle
  /\ sel = IdleSel
  /\ InitDebounce
  /\ InitStore
  /\ failure = IdleFailure
  /\ parse = IdleParse
  /\ others = 0
  /\ ov = IdleOverlap
  /\ mem = IdleMemory
  /\ \E active \in Roots \cup {NoId}, confirm \in BOOLEAN :
       inv = [IdleInvoke EXCEPT !.active = active, !.confirmForcePush = confirm]

NextInvoke ==
  /\ \/ \E cmd \in InvokedCommands, post \in PostCommitActions :
          \E path \in BodyPaths(cmd) : Invoke(cmd, post, path)
     \/ \E choice \in {"Force Push", "undefined"} : ForceConfirm(choice)
     \/ BodyStep
     \/ BodyFail
     \/ BodyEnd
     \/ \E ok \in BOOLEAN : PostCommitPush(ok)
     \/ \E path \in BodyPaths("gitcc.sync") : PostCommitSync(path)
     \/ \E ok \in BOOLEAN : InvokeRefresh(ok)
     \/ InvokeCatch
     \/ \E path \in UNION {BodyPaths(cmd) : cmd \in FollowUpCommands} : InvokeFollowUp(path)
     \/ \E pullOk, pushOk \in BOOLEAN : InvokeRecovery(pullOk, pushOk)
     \/ InvokeReturn
     \/ \E root \in Roots \cup {NoId} : SwitchActive(root)
  /\ UNCHANGED <<cacheVars, refreshVars, wfVars, registryVars, selVars, debounceVars, storeVars,
                 errVars, parseVars, otherVars, overlapVars, memoryVars>>

SpecInvoke == InitInvoke /\ [][NextInvoke]_vars

\* C37: every git command issued on behalf of one invocation (its body, its
\* post-commit push or sync, the recovery action selected after its failure) runs in
\* the repository that was active when the invocation started.
C37_SameRepository ==
  \A entry \in inv.log : entry.kind = "git" => entry.cwd = inv.start

ForcedPushes == {entry \in inv.log : entry.kind = "git" /\ "--force-with-lease" \in Range(entry.argv)}

\* C39: a push with --force-with-lease is issued only by the body of the force-push
\* handler, and with confirmForcePush enabled only after the operator answered
\* 'Force Push'; Sync, Push, 'Pull then Push' and the post-commit push never force.
C39_ForceOnlyConfirmed ==
  /\ \A entry \in ForcedPushes :
       /\ entry.cmd = "gitcc.forcePushWithLease"
       /\ entry.phase = "body"
       /\ inv.confirmForcePush =>
            /\ entry.answer = "Force Push"
            /\ \E asked \in inv.log : /\ asked.kind = "prompt"
                                      /\ asked.cmd = entry.cmd
                                      /\ asked.cwd = entry.cwd
                                      /\ asked.answer = "Force Push"
  /\ \A entry \in inv.log :
       (entry.cmd \in {"gitcc.sync", "gitcc.push", "gitcc.commitNow"}
          \/ entry.phase \in {"post", "recovery"}) => entry \notin ForcedPushes

\* a rejected push was followed by 'Force with Lease', confirmed and pushed with force
C39_Witness ==
  /\ inv.confirmForcePush
  /\ ForcedPushes # {}
  /\ \E entry \in inv.log : entry.cmd = "gitcc.push" /\ entry.argv = PushArgs(InvokeRemote, FALSE)
  /\ \E entry \in inv.log : entry.kind = "prompt" /\ entry.answer = "Force Push"

(***************************************************************************)
(* BranchMemoryService: recents and favorites per repository               *)
(***************************************************************************)
FavoritesLimit == 50

\* mutant: an earlier entry of the branch stays in the list
recordCheckoutOf_KeepsEarlier(memory, branchName) ==
  LET moved == <<branchName>> \o memory.recents
  IN [memory EXCEPT !.recents =
        SubSeq(moved, 1, IF Len(moved) < RecentsLimit THEN Len(moved) ELSE RecentsLimit)]

\* BranchMemoryService.recordCheckout lines 27-28, on the record that get returned
recordCheckoutOf(memory, branchName) ==
  [memory EXCEPT !.recents = recordCheckout(memory.recents, branchName)]

\* BranchMemoryService.pin lines 12-17
pinOf(memory, branchName) ==
  IF branchName \in Range(memory.favorites) THEN memory
  ELSE LET added == <<branchName>> \o memory.favorites
       IN [memory EXCEPT !.favorites =
             SubSeq(added, 1, IF Len(added) < FavoritesLimit THEN Len(added) ELSE FavoritesLimit)]

\* BranchMemoryService.unpin line 22
unpinOf(memory, branchName) ==
  [memory EXCEPT !.favorites = SelectSeq(@, LAMBDA name : name # branchName)]

Reverse(list) == [i \in 1..Len(list) |-> list[Len(list) + 1 - i]]

\* the recents a repository can have stored: none, nine, or the ten of a full list
StoredRecents == <<"b1", "b2", "b3", "b4", "b5", "b6", "b7", "b8", "b9", "b10">>
RecordedBranches == {"b1", "b10", "new"}

InitMemory ==
  /\ InitCache
  /\ InitRefresh
  /\ InitRegistry
  /\ InitWorkflowIdle
  /\ sel = IdleSel
  /\ InitDebounce
  /\ InitStore
  /\ failure = IdleFailure
  /\ parse = IdleParse
  /\ others = 0
  /\ ov = IdleOverlap
  /\ inv = IdleInvoke
  /\ \E n \in {0, RecentsLimit - 1, RecentsLimit}, favorites \in {<<>>, <<"b1">>} :
       LET stored == [favorites |-> favorites, recents |-> SubSeq(StoredRecents, 1, n)]
           other == [favorites |-> <<"new">>, recents |-> <<"b1", "new">>]
           state == memorySave(memorySave(IdleMemory.state, RootAB, other), RootA, stored)
       IN mem = [IdleMemory EXCEPT
                   !.state = IF n = 0 /\ favorites = <<>>
                             THEN memorySave(IdleMemory.state, RootAB, other) ELSE state,
                   !.history = [root \in Roots |->
                                  Reverse(IF root = RootA THEN stored.recents ELSE other.recents)],
                   !.before = IdleMemory.state]

\* BranchMemoryService.recordCheckout(repoKey, branchName)
RecordCheckout(repoKey, branchName) ==
  /\ mem.records[RootA] + mem.records[RootAB] < MaxRecords
  /\ mem' = [mem EXCEPT
       !.state = memorySave(mem.state, repoKey,
                            recordCheckoutOf(memoryGet(mem.state, repoKey), branchName)),
       !.history[repoKey] = Append(@, branchName),
       !.records[repoKey] = @ + 1,
       !.last = [done |-> TRUE, repoKey |-> repoKey, branchName |-> branchName],
       !.before = mem.state]

\* BranchMemoryService.pin(repoKey, branchName)
Pin(repoKey, branchName) ==
  /\ branchName \notin Range(memoryGet(mem.state, repoKey).favorites)
  /\ mem' = [mem EXCEPT
       !.state = memorySave(mem.state, repoKey, pinOf(memoryGet(mem.state, repoKey), branchName)),
       !.last = NoRecord,
       !.before = mem.state]

\* BranchMemoryService.unpin(repoKey, branchName)
Unpin(repoKey, branchName) ==
  /\ branchName \in Range(memoryGet(mem.state, repoKey).favorites)
  /\ mem' = [mem EXCEPT
       !.state = memorySave(mem.state, repoKey, unpinOf(memoryGet(mem.state, repoKey), branchName)),
       !.last = NoRecord,
       !.before = mem.state]

NextMemory ==
  /\ \/ \E repoKey \in Roots, branchName \in RecordedBranches : RecordCheckout(repoKey, branchName)
     \/ \E repoKey \in Roots : Pin(repoKey, "b10")
     \/ \E repoKey \in Roots : Unpin(repoKey, "b10")
  /\ UNCHANGED <<cacheVars, refreshVars, wfVars, registryVars, selVars, debounceVars, storeVars,
                 errVars, parseVars, otherVars, overlapVars, invokeVars>>

SpecMemory == InitMemory /\ [][NextMemory]_vars

\* the position of the latest checkout of a branch in the checkouts of a repository
LatestCheckout(history, name) ==
  LET at == {i \in DOMAIN history : history[i] = name}
  IN IF at = {} THEN 0 ELSE CHOOSE i \in at : \A j \in at : j <= i

\* C38: after recordCheckout calls for a repository its recents have no duplicates, at
\* most 10 entries, the branch recorded last first and the others by their latest
\* checkout; the call leaves the other repositories and the favorites as they were.
C38_RecentsAfterRecord ==
  /\ \A root \in Roots :
       mem.records[root] > 0 =>
         LET list == memoryGet(mem.state, root).recents
             history == mem.history[root]
         IN /\ \A i, j \in DOMAIN list : i # j => list[i] # list[j]
            /\ Len(list) <= RecentsLimit
            /\ list # <<>>
            /\ list[1] = history[Len(history)]
            /\ \A i, j \in DOMAIN list :
                 i < j => LatestCheckout(history, list[i]) > LatestCheckout(history, list[j])
            /\ \A i \in DOMAIN list : LatestCheckout(history, list[i]) > 0
  /\ mem.last.done =>
       /\ \A root \in Roots \ {mem.last.repoKey} : mem.state[memoryKey(root)] = mem.before[memoryKey(root)]
       /\ memoryGet(mem.state, mem.last.repoKey).favorites
            = memoryGet(mem.before, mem.last.repoKey).favorites

\* a full list took a new branch and lost its oldest entry, then an entry of the
\* list was checked out again and moved to the front; the favorites stayed
C38_Witness ==
  /\ mem.last.done
  /\ mem.last.repoKey = RootA
  /\ mem.records[RootA] >= 2
  /\ LET memory == memoryGet(mem.state, RootA)
     IN /\ Len(memory.recents) = RecentsLimit
        /\ memory.recents[1] = "b1"
        /\ memory.recents[2] = "new"
        /\ "b10" \notin Range(memory.recents)
        /\ memory.favorites # <<>>

(***************************************************************************)
(* withRepo: the refresh after a handler that changed the repository       *)
(***************************************************************************)
\* a mutating git command of the running handler has exited 0
HasMutated == \E i \in DOMAIN calls : calls[i].ok /\ IsMutating(calls[i])

\* C40: a handler that has issued a mutating git command returns only after
\* refreshAll has refreshed the registry and the views, also when a later step failed.
C40_RefreshBeforeReturn ==
  [][(wf'.pc = "end" /\ wf.pc # "end" /\ HasMutated) => wf.pc = "refresh"]_vars

====
